---- MODULE Spec2Model ----
(***************************************************************************)
(* A model of the autonomous agent of src/autonomous_agent.py: the safety  *)
(* enforcer (path containment and the code denylist), the persistent       *)
(* memory ledger, the sandbox executor, and the two dispatch modes of the  *)
(* controller.                                                             *)
(***************************************************************************)
EXTENDS Integers, Sequences, FiniteSets, TLC

VARIABLES
    sfIn,       \* SafetyEnforcer: the argument of the call under study
    sfOut,      \* SafetyEnforcer: what the call returned (Pending before it)
    file,       \* memory.json: the stored ledger document, or Absent
    clock,      \* datetime.now(), as a counter
    last,       \* the last PersistentMemory call: its name, arguments, return value
    prev,       \* the content of memory.json before the last call
    writes,     \* how many times _write has run on this file
    issued,     \* the (index, goal) pairs add_directive has returned
    logged,     \* every record log_failure was given, in call order
    mode,       \* AutonomousAgent.mode
    pc,         \* where run is: "ready", the graph node or "decide", then "done"
    goal,       \* run's goal
    skill_name, \* run's skill name (given, or derived from the goal)
    status,     \* AgentState.status (graph mode)
    iteration,  \* the iteration counter of either mode
    skill_code, \* AgentState.skill_code / run_llm_central's skill_code
    test_result,\* AgentState.test_result
    history,    \* run_llm_central's history
    outcome,    \* what run returned
    disk,       \* the skill files written during the run
    executed,   \* the code handed to PythonExecutor.execute during the run
    checked,    \* the code check_code_safety has passed during the run
    rounds,     \* how often each graph handler has run during the run
    verdicts,   \* the analysis verdicts of the run's graph iterations, in order
    decision,   \* the last decision of decide_next_action, and the state it met
    tick,       \* int(time.time() * 1000)
    exec_dir,   \* the files of the exec directory: name and whose code they hold
    inv,        \* the invocations of PythonExecutor.execute: position and locals
    procs,      \* the running processes that execute has started, descendants too
    writers     \* the processes that share memory.json: position, the document read

safetyVars == <<sfIn, sfOut>>
ledgerVars == <<file, clock, last, prev, writes, issued, logged>>
runVars ==
    <<mode, pc, goal, skill_name, status, iteration, skill_code, test_result,
      history, outcome, disk, executed, checked, rounds, verdicts, decision>>
execVars == <<tick, exec_dir, inv, procs>>
writerVars == <<writers>>
vars == <<safetyVars, ledgerVars, runVars, execVars, writerVars>>

Pending == <<"pending">>
Absent == [exists |-> FALSE]
Idle == "idle"
NoRounds == [plan |-> 0, write |-> 0, test |-> 0, analyze |-> 0]
NoDecision == [action |-> "none"]

\* ------------------------------------------------------------------------
\* Helpers on sequences
\* ------------------------------------------------------------------------

SeqsUpTo(S, n) == UNION {[1..k -> S] : k \in 0..n}

StartsWith(s, prefix) ==
    /\ Len(prefix) <= Len(s)
    /\ SubSeq(s, 1, Len(prefix)) = prefix

\* ------------------------------------------------------------------------
\* Paths.  A path string is a sequence of characters; a resolved path is a
\* list of components, each a sequence of characters.
\* ------------------------------------------------------------------------

MaxPathLen == 3

DotDot == <<".", ".">>
Dot == <<".">>
NulName == <<"NUL">>        \* a component holding an embedded null byte

CwdName == <<"h">>
WsName == <<"w">>                \* agent_workspace
SiblingName == <<"w", "x">>      \* a directory beside it: agent_workspace_x
SkillsName == <<"s">>
ExecName == <<"e">>
LinkName == <<"l">>              \* a symbolic link inside the workspace
OutsideName == <<"o">>

CWD == <<CwdName>>
WORKSPACE_ROOT == <<CwdName, WsName>>
SKILLS_DIR == Append(WORKSPACE_ROOT, SkillsName)
EXEC_DIR == Append(WORKSPACE_ROOT, ExecName)

\* The symbolic links of the file system: link path :> resolved target.
Links == (Append(WORKSPACE_ROOT, LinkName) :> <<OutsideName>>)

\* str(path) of an absolute path
RECURSIVE Str(_)
Str(comps) ==
    IF comps = <<>> THEN <<>>
    ELSE <<"/">> \o Head(comps) \o Str(Tail(comps))

\* pathlib's base / path: an absolute right operand replaces the base
PathJoin(base, path) ==
    IF path.abs THEN path.segs ELSE base \o path.segs

\* Path.resolve(): "." dropped, ".." pops (the root is its own parent),
\* symbolic links followed
RECURSIVE ResolveFrom(_, _)
ResolveFrom(acc, rest) ==
    IF rest = <<>> THEN acc
    ELSE LET c == Head(rest)
             next == Append(acc, c)
         IN  IF c = Dot THEN ResolveFrom(acc, Tail(rest))
             ELSE IF c = DotDot
                  THEN ResolveFrom(IF acc = <<>> THEN acc
                                   ELSE SubSeq(acc, 1, Len(acc) - 1), Tail(rest))
             ELSE ResolveFrom(IF next \in DOMAIN Links THEN Links[next] ELSE next,
                              Tail(rest))

Resolve(comps) == ResolveFrom(<<>>, comps)

\* resolve() raises ValueError on an embedded null byte
ResolveRaises(comps) == \E i \in 1..Len(comps) : comps[i] = NulName

is_path_safe(workspace, path) ==
    IF ResolveRaises(PathJoin(workspace, path))
    THEN <<FALSE, "Invalid path">>
    ELSE LET target == Resolve(PathJoin(workspace, path))
         IN  IF ~StartsWith(Str(target), Str(workspace))
             THEN <<FALSE, "Path traversal detected">>
             ELSE <<TRUE, "">>

\* The component-wise meaning of "inside the workspace's directory tree"
InsideTree(root, target) == StartsWith(target, root)

PathSegs == {DotDot, Dot, NulName, WsName, SiblingName, SkillsName, CwdName, LinkName}

PathInputs ==
    {[kind |-> "path", abs |-> a, segs |-> s] :
        a \in BOOLEAN, s \in SeqsUpTo(PathSegs, MaxPathLen)}

\* ------------------------------------------------------------------------
\* Code.  A code sample is a sequence of tokens: a denylisted keyword is one
\* token (in the case it is written in), "x", "w", "a" are single word
\* characters, "sp" and "nl" are a blank and a line break.
\* ------------------------------------------------------------------------

MaxCodeLen == 5

Keywords ==
    {"eval", "exec", "os.system", "subprocess.Popen", "subprocess.call",
     "__import__", "compile", "open"}

\* f"{{{key}}}": the placeholder of a template parameter, one token
Placeholder(key) == "{" \o key \o "}"

\* the names written between braces in the templates of the default frameworks
TemplateKeys ==
    {"description", "function_name", "params", "doc_string", "test_params", "result",
     "task", "context", "step1", "step2", "step3", "expected_outcome",
     "class_name", "test_name", "test_description"}

\* "." is a character that is neither a word character, white space, a
\* quote nor an opening bracket
Tokens ==
    Keywords \cup {"EVAL", "OPEN", "W", "x", "w", "a", "sp", "nl", "(", "'", "\"", "."}
        \cup {Placeholder(k) : k \in TemplateKeys}

\* str.lower() of one token
Lower(t) ==
    CASE t = "EVAL" -> "eval"
      [] t = "OPEN" -> "open"
      [] t = "W" -> "w"
      [] OTHER -> t

\* \w: every keyword begins and ends with a word character
IsWord(t) == Lower(t) \in Keywords \cup {"x", "w", "a"}

Whitespace == {"sp", "nl"}
AnyButNewline == Tokens \ {"nl"}

\* Regular expressions: a pattern is a sequence of atoms.
WordBoundary == [k |-> "b"]                   \* \b
Lit(t) == [k |-> "lit", c |-> {t}]            \* a literal
OneOf(c) == [k |-> "lit", c |-> c]            \* [...]
Star(c) == [k |-> "star", c |-> c]            \* \s*  and  .*
Alt(ps) == [k |-> "alt", alts |-> ps]         \* (p|q)

CallPattern(kw) == <<WordBoundary, Lit(kw), Star(Whitespace), Lit("(")>>

DANGEROUS_PATTERNS ==
    << CallPattern("eval"),
       CallPattern("exec"),
       CallPattern("os.system"),
       CallPattern("subprocess.Popen"),
       CallPattern("subprocess.call"),
       CallPattern("__import__"),
       CallPattern("compile"),
       <<WordBoundary, Lit("open"), Star(Whitespace), Lit("("), Star(AnyButNewline),
         Alt({<<OneOf({"'", "\""}), Lit("w")>>, <<OneOf({"'", "\""}), Lit("a")>>})>> >>

\* one character against a class, under re.IGNORECASE or not
CharMatches_CaseSensitive(t, c, ignorecase) == t \in c

CharMatches(t, c, ignorecase) ==
    IF ignorecase THEN \E u \in c : Lower(u) = Lower(t) ELSE t \in c

\* \b at position i (between code[i] and code[i+1])
AtBoundary(code, i) ==
    LET before == i >= 1 /\ IsWord(code[i])
        after == i < Len(code) /\ IsWord(code[i + 1])
    IN  before # after

\* The positions at which a match of the pattern that starts at a position
\* of `from` can end.
RECURSIVE PatEnds(_, _, _, _)
AtomEnds(atom, code, i, ic) ==
    CASE atom.k = "b" -> IF AtBoundary(code, i) THEN {i} ELSE {}
      [] atom.k = "lit" ->
            IF i < Len(code) /\ CharMatches(code[i + 1], atom.c, ic) THEN {i + 1} ELSE {}
      [] atom.k = "star" ->
            {j \in i..Len(code) : \A m \in (i + 1)..j : CharMatches(code[m], atom.c, ic)}
      [] atom.k = "alt" -> UNION {PatEnds(p, code, {i}, ic) : p \in atom.alts}

PatEnds(pat, code, from, ic) ==
    IF pat = <<>> THEN from
    ELSE PatEnds(Tail(pat), code,
                 UNION {AtomEnds(Head(pat), code, i, ic) : i \in from}, ic)

\* re.search(pattern, code, re.IGNORECASE) is not None
re_search(pat, code, ic) == \E i \in 0..Len(code) : PatEnds(pat, code, {i}, ic) # {}

\* for pattern in DANGEROUS_PATTERNS: the first that matches is reported
RECURSIVE ScanFrom(_, _)
ScanFrom(n, code) ==
    IF n > Len(DANGEROUS_PATTERNS) THEN <<TRUE, "">>
    ELSE IF re_search(DANGEROUS_PATTERNS[n], code, TRUE)
         THEN <<FALSE, [pattern |-> n]>>
         ELSE ScanFrom(n + 1, code)

check_code_safety(code) == ScanFrom(1, code)

CodeAlphabet == {"eval", "EVAL", "exec", "open", "nl", "(", "'", "w"}

CodeInputs ==
    {[kind |-> "code", code |-> c] : c \in SeqsUpTo(CodeAlphabet, MaxCodeLen)}

\* ------------------------------------------------------------------------
\* The safety enforcer's calls, each applied to an input drawn at the start
\* ------------------------------------------------------------------------

\* requires_approval: the auto-approved actions
AUTO_APPROVED == {"write_skill", "execute_python", "read_workspace"}

requires_approval_IgnoresPath(workspace, action, kwargs) == action \notin AUTO_APPROVED

\* requires_approval(action, **kwargs); kwargs holds a path or not
requires_approval(workspace, action, kwargs) ==
    IF action \in AUTO_APPROVED
    THEN IF kwargs.has_path
         THEN ~is_path_safe(workspace, kwargs.path)[1]
         ELSE FALSE
    ELSE TRUE

\* the actions asked about: the auto-approved ones and two others
ApprovalActions == AUTO_APPROVED \cup {"system_command", "WRITE_SKILL"}

\* The longest path handed to requires_approval
MaxApprovalPathLen == 2

ApprovalPaths == {p \in PathInputs : Len(p.segs) <= MaxApprovalPathLen}

ApprovalInputs ==
    {[kind |-> "approval", action |-> a, has_path |-> FALSE, abs |-> FALSE, segs |-> <<>>] :
        a \in ApprovalActions}
    \cup {[kind |-> "approval", action |-> a, has_path |-> TRUE, abs |-> p.abs,
           segs |-> p.segs] : a \in ApprovalActions, p \in ApprovalPaths}

InitSafety ==
    /\ sfIn \in PathInputs \cup CodeInputs \cup ApprovalInputs
    /\ sfOut = Pending

PathOf(in) == [abs |-> in.abs, segs |-> in.segs]

IsPathSafeCall ==
    /\ sfOut = Pending
    /\ sfIn.kind = "path"
    /\ sfOut' = is_path_safe(WORKSPACE_ROOT, PathOf(sfIn))
    /\ UNCHANGED <<sfIn, ledgerVars, runVars, execVars, writerVars>>

CheckCodeSafetyCall ==
    /\ sfOut = Pending
    /\ sfIn.kind = "code"
    /\ sfOut' = check_code_safety(sfIn.code)
    /\ UNCHANGED <<sfIn, ledgerVars, runVars, execVars, writerVars>>

\* the value is kept with its name, as a pair like the other results
RequiresApprovalCall ==
    /\ sfOut = Pending
    /\ sfIn.kind = "approval"
    /\ sfOut' = <<requires_approval(WORKSPACE_ROOT, sfIn.action,
                                    [has_path |-> sfIn.has_path, path |-> PathOf(sfIn)]),
                  "requires_approval">>
    /\ UNCHANGED <<sfIn, ledgerVars, runVars, execVars, writerVars>>


\* ------------------------------------------------------------------------
\* PersistentMemory: the ledger document and its operations
\* ------------------------------------------------------------------------

MaxCalls == 4          \* clock ticks a behaviour of Spec may use
MaxLimit == 2          \* the largest explicit limit given to get_relevant_failures
MaxLogged == 52        \* log_failure calls in a behaviour of SpecFailures
MaxOtherSkill == 1     \* of which for the second skill

NoStamp == 0           \* a timestamp key the record does not have
FAILURE_LIMIT == 50    \* memory["failures"][-50:]
DEFAULT_LIMIT == 5     \* get_relevant_failures(..., limit=5)

SkillNames == {"alpha", "beta"}
Descriptions == {"d1", "d2"}
Statuses == {"untested", "working", "failed"}
Errors == {"e1"}
Snippets == {"c1"}
Goals == {"g1", "g2"}

\* Python's seq[-n:]
LastSlice(seq, n) ==
    LET len == Len(seq)
        start == IF -n < 0
                 THEN (IF len - n > 0 THEN len - n ELSE 0)
                 ELSE (IF -n < len THEN -n ELSE len)
    IN  SubSeq(seq, start + 1, len)

\* the document __init__ hands to _write when memory.json does not exist
EmptyLedger(now) ==
    [version |-> 0, skills |-> <<>>, failures |-> <<>>, directives |-> <<>>,
     created_at |-> now, updated_at |-> NoStamp]

_write_NoIncrement(data, now) == [data EXCEPT !.updated_at = now]

\* _write: what json.dump stores
_write(data, now) ==
    [data EXCEPT !.version = data.version + 1, !.updated_at = now]

\* for skill in memory["skills"]: if skill["name"] == name  (0: no such skill)
RECURSIVE FindSkill(_, _, _)
FindSkill(skills, name, i) ==
    IF i > Len(skills) THEN 0
    ELSE IF skills[i].name = name THEN i
    ELSE FindSkill(skills, name, i + 1)

add_skill_AlwaysAppend(memory, name, description, skill_status, now) ==
    _write([memory EXCEPT !.skills =
                Append(@, [name |-> name, description |-> description,
                           status |-> skill_status, created_at |-> now,
                           updated_at |-> NoStamp])], now)

add_skill_ReplacesRecord(memory, name, description, skill_status, now) ==
    LET i == FindSkill(memory.skills, name, 1)
        record == [name |-> name, description |-> description,
                   status |-> skill_status, created_at |-> now,
                   updated_at |-> NoStamp]
    IN  IF i # 0
        THEN _write([memory EXCEPT !.skills[i] = record], now)
        ELSE _write([memory EXCEPT !.skills = Append(@, record)], now)

\* add_skill: the document stored afterwards
add_skill(memory, name, description, skill_status, now) ==
    LET i == FindSkill(memory.skills, name, 1)
    IN  IF i # 0
        THEN _write([memory EXCEPT !.skills[i].status = skill_status,
                                   !.skills[i].description = description,
                                   !.skills[i].updated_at = now], now)
        ELSE _write([memory EXCEPT !.skills =
                        Append(@, [name |-> name, description |-> description,
                                   status |-> skill_status, created_at |-> now,
                                   updated_at |-> NoStamp])], now)

FailureRecord(skill, error, code_snippet, now) ==
    [skill |-> skill, error |-> error, code_snippet |-> code_snippet, timestamp |-> now]

log_failure_KeepFirst(memory, skill, error, code_snippet, now) ==
    _write([memory EXCEPT !.failures =
                SubSeq(Append(@, FailureRecord(skill, error, code_snippet, now)), 1,
                       IF Len(@) + 1 < FAILURE_LIMIT THEN Len(@) + 1 ELSE FAILURE_LIMIT)],
           now)

\* log_failure: the document stored afterwards
log_failure(memory, skill, error, code_snippet, now) ==
    _write([memory EXCEPT !.failures =
                LastSlice(Append(@, FailureRecord(skill, error, code_snippet, now)),
                          FAILURE_LIMIT)], now)

add_directive_ReturnsLength(memory, goal_text, now) ==
    LET appended == [memory EXCEPT !.directives =
                        Append(@, [goal |-> goal_text, status |-> "pending",
                                   created_at |-> now, completed_at |-> NoStamp])]
    IN  [doc |-> _write(appended, now), ret |-> Len(appended.directives)]

\* add_directive: the document stored afterwards, and the index returned
add_directive(memory, goal_text, now) ==
    LET appended == [memory EXCEPT !.directives =
                        Append(@, [goal |-> goal_text, status |-> "pending",
                                   created_at |-> now, completed_at |-> NoStamp])]
    IN  [doc |-> _write(appended, now), ret |-> Len(appended.directives) - 1]

InRange_NoLowerBound(memory, index) == index < Len(memory.directives)

\* the guard of complete_directive: 0 <= index < len(memory["directives"])
InRange(memory, index) == 0 <= index /\ index < Len(memory.directives)

complete_directive_Restamps(memory, index, now) ==
    _write([memory EXCEPT !.directives[index + 1].status = "completed",
                          !.directives[index + 1].completed_at = now,
                          !.created_at = now], now)

\* complete_directive, for an index in range: the document stored afterwards
complete_directive(memory, index, now) ==
    _write([memory EXCEPT !.directives[index + 1].status = "completed",
                          !.directives[index + 1].completed_at = now], now)

\* get_relevant_failures: the list returned
get_relevant_failures(memory, name, limit) ==
    LET relevant == SelectSeq(memory.failures, LAMBDA f : f.skill = name)
    IN  LastSlice(relevant, limit)


\* ------------------------------------------------------------------------
\* The ledger under a single writer: one action per PersistentMemory call
\* ------------------------------------------------------------------------

IdleSafety == sfIn = Idle /\ sfOut = Idle

IdleRun ==
    /\ mode = Idle
    /\ pc = Idle
    /\ goal = <<>>
    /\ skill_name = <<>>
    /\ status = Idle
    /\ iteration = 0
    /\ skill_code = <<>>
    /\ test_result = Idle
    /\ history = <<>>
    /\ outcome = Idle
    /\ disk = {}
    /\ executed = {}
    /\ checked = {}
    /\ rounds = NoRounds
    /\ verdicts = <<>>
    /\ decision = NoDecision

InitLedger ==
    /\ file = Absent
    /\ clock = 1
    /\ last = [op |-> "none"]
    /\ prev = Absent
    /\ writes = 0
    /\ issued = {}
    /\ logged = <<>>

\* no invocation of the executor
IdleExec ==
    /\ tick = 0
    /\ exec_dir = {}
    /\ inv = <<>>
    /\ procs = {}

\* the processes that share one memory.json
Writers == {1, 2}

NoDocument == [version |-> 0]

\* a process that has not called the ledger
IdleWriter == [pc |-> Idle, op |-> "none", memory |-> NoDocument]

IdleWriters == writers = [w \in Writers |-> IdleWriter]

Init == IdleSafety /\ InitLedger /\ IdleRun /\ IdleExec /\ IdleWriters

Construct_AlwaysBootstraps ==
    /\ file' = _write(EmptyLedger(clock), clock)
    /\ writes' = writes + 1
    /\ clock' = clock + 1
    /\ prev' = file
    /\ last' = [op |-> "__init__", wrote |-> TRUE]
    /\ UNCHANGED <<issued, logged, safetyVars, writerVars, execVars, runVars>>

\* PersistentMemory(memory_path): the bootstrap write happens only when the
\* file does not exist
Construct ==
    /\ IF file = Absent
       THEN /\ file' = _write(EmptyLedger(clock), clock)
            /\ writes' = writes + 1
            /\ clock' = clock + 1
       ELSE UNCHANGED <<file, writes, clock>>
    /\ prev' = file
    /\ last' = [op |-> "__init__", wrote |-> (file = Absent)]
    /\ UNCHANGED <<issued, logged, safetyVars, writerVars, execVars, runVars>>

Read ==
    /\ file # Absent
    /\ last' = [op |-> "read", wrote |-> FALSE, ret |-> file]
    /\ prev' = file
    /\ UNCHANGED <<file, clock, writes, issued, logged, safetyVars, writerVars, execVars, runVars>>

AddSkillStep(name, description, skill_status) ==
    /\ file # Absent
    /\ file' = add_skill(file, name, description, skill_status, clock)
    /\ last' = [op |-> "add_skill", wrote |-> TRUE, name |-> name,
                description |-> description, status |-> skill_status]
    /\ prev' = file
    /\ writes' = writes + 1
    /\ clock' = clock + 1
    /\ UNCHANGED <<issued, logged>>

AddSkill ==
    \E name \in SkillNames, description \in Descriptions, skill_status \in Statuses :
        /\ clock <= MaxCalls
        /\ AddSkillStep(name, description, skill_status)
        /\ UNCHANGED <<safetyVars, writerVars, execVars, runVars>>

LogFailureStep(skill, error, code_snippet) ==
    /\ file # Absent
    /\ file' = log_failure(file, skill, error, code_snippet, clock)
    /\ last' = [op |-> "log_failure", wrote |-> TRUE, skill |-> skill]
    /\ prev' = file
    /\ writes' = writes + 1
    /\ logged' = Append(logged, FailureRecord(skill, error, code_snippet, clock))
    /\ clock' = clock + 1
    /\ UNCHANGED issued

LogFailure ==
    \E skill \in SkillNames, error \in Errors, code_snippet \in Snippets :
        /\ clock <= MaxCalls
        /\ LogFailureStep(skill, error, code_snippet)
        /\ UNCHANGED <<safetyVars, writerVars, execVars, runVars>>

AddDirective ==
    \E g \in Goals :
        /\ file # Absent
        /\ clock <= MaxCalls
        /\ LET r == add_directive(file, g, clock)
           IN  /\ file' = r.doc
               /\ last' = [op |-> "add_directive", wrote |-> TRUE, goal |-> g,
                           ret |-> r.ret]
               /\ issued' = issued \cup {[index |-> r.ret, goal |-> g]}
        /\ prev' = file
        /\ writes' = writes + 1
        /\ clock' = clock + 1
        /\ UNCHANGED <<logged, safetyVars, writerVars, execVars, runVars>>

CompleteDirective ==
    /\ file # Absent
    /\ \E index \in -1..(Len(file.directives) + 1) :
        /\ IF InRange(file, index)
           THEN /\ clock <= MaxCalls
                /\ file' = complete_directive(file, index, clock)
                /\ writes' = writes + 1
                /\ clock' = clock + 1
           ELSE UNCHANGED <<file, writes, clock>>
        /\ last' = [op |-> "complete_directive", wrote |-> InRange(file, index),
                    index |-> index]
        /\ prev' = file
        /\ UNCHANGED <<issued, logged, safetyVars, writerVars, execVars, runVars>>

GetRelevantFailures ==
    \E name \in SkillNames, limit \in (0..MaxLimit) \cup {DEFAULT_LIMIT} :
        /\ file # Absent
        /\ last' = [op |-> "get_relevant_failures", wrote |-> FALSE,
                    skill |-> name, limit |-> limit,
                    ret |-> get_relevant_failures(file, name, limit)]
        /\ prev' = file
        /\ UNCHANGED <<file, clock, writes, issued, logged, safetyVars, writerVars, execVars, runVars>>

Next ==
    \/ Construct
    \/ Read
    \/ AddSkill
    \/ LogFailure
    \/ AddDirective
    \/ CompleteDirective
    \/ GetRelevantFailures

Spec == Init /\ [][Next]_vars

\* ------------------------------------------------------------------------
\* The ledger under a long run of log_failure calls
\* ------------------------------------------------------------------------

CountOf(seq, skill) == Cardinality({i \in 1..Len(seq) : seq[i].skill = skill})

FloodFailure ==
    \E skill \in SkillNames, error \in Errors, code_snippet \in Snippets :
        /\ Len(logged) < MaxLogged
        /\ skill = "beta" => CountOf(logged, "beta") < MaxOtherSkill
        /\ LogFailureStep(skill, error, code_snippet)
        /\ UNCHANGED <<safetyVars, writerVars, execVars, runVars>>

NextFailures ==
    \/ Construct
    \/ FloodFailure

SpecFailures == Init /\ [][NextFailures]_vars

\* ------------------------------------------------------------------------
\* The safety enforcer's specification
\* ------------------------------------------------------------------------

IdleLedger == InitLedger

InitSafetySpec == InitSafety /\ IdleLedger /\ IdleRun /\ IdleExec /\ IdleWriters

NextSafety ==
    \/ IsPathSafeCall
    \/ CheckCodeSafetyCall
    \/ RequiresApprovalCall

SpecSafety == InitSafetySpec /\ [][NextSafety]_vars

\* ------------------------------------------------------------------------
\* The framework registry and the assembler.  A template is a sequence of
\* tokens like a code sample; a run of ordinary characters is written "x"
\* when it is a word and "." when it is punctuation, and the characters next
\* to a placeholder keep their class.
\* ------------------------------------------------------------------------

MaxFrameworks == 2
MaxParams == 2

python_generator ==
    [name |-> "python_generator", type_ |-> "do", language |-> "python",
     components |->
        << <<"header",
             <<".", "x", "nl", "\"", "nl", Placeholder("description"), "nl", "\"", "nl">> >>,
           <<"main_function",
             <<"nl", "x", "sp", Placeholder("function_name"), "(", Placeholder("params"),
               ".", "nl", "sp", "\"", "nl", "sp", Placeholder("doc_string"), "nl", "sp",
               "\"", "nl", "sp", ".", "x", "nl", "sp", "x", "nl">> >>,
           <<"test_harness",
             <<"nl", "x", "sp", "\"", "x", "\"", ".", "nl", "sp", ".", "x", "nl",
               "sp", "x", "(", "\"", "x", "sp", Placeholder("function_name"), ".", "\"",
               ".", "nl",
               "sp", "x", "sp", ".", "sp", Placeholder("function_name"), "(",
               Placeholder("test_params"), ".", "nl",
               "sp", "x", "(", "x", "\"", "x", ".", "sp", ".", Placeholder("result"),
               ".", "\"", ".", "nl">> >> >>]

analysis_prompt ==
    [name |-> "analysis_prompt", type_ |-> "think", language |-> "natural",
     components |->
        << <<"analysis_template",
             <<"nl", "x", ".", "sp", Placeholder("task"), "nl", "nl",
               "x", ".", "nl", Placeholder("context"), "nl", "nl",
               "x", ".", "nl",
               "x", ".", "sp", Placeholder("step1"), "nl",
               "x", ".", "sp", Placeholder("step2"), "nl",
               "x", ".", "sp", Placeholder("step3"), "nl", "nl",
               "x", ".", "nl", Placeholder("expected_outcome"), "nl">> >> >>]

test_harness ==
    [name |-> "test_harness", type_ |-> "do", language |-> "python",
     components |->
        << <<"test_setup",
             <<"nl", "x", "sp", "x", "nl", "nl",
               "x", "sp", "x", Placeholder("class_name"), "(", "x", ".", "nl",
               "sp", "\"", "x", "sp", Placeholder("class_name"), ".", "\"", "nl",
               "sp", "nl",
               "sp", "x", "sp", "x", "(", "x", ".", "nl",
               "sp", "\"", "x", ".", "\"", "nl",
               "sp", "x", "nl">> >>,
           <<"test_method",
             <<"nl", "sp", "x", "sp", "x", Placeholder("test_name"), "(", "x", ".", "nl",
               "sp", "\"", "x", "sp", Placeholder("test_description"), ".", "\"", "nl",
               "sp", ".", "x", "nl",
               "sp", "x", "(", "x", ".", "nl">> >>,
           <<"test_runner",
             <<"nl", "x", "sp", ".", "sp", "'", "x", "'", ".", "nl",
               "sp", "x", "(", ".", "nl">> >> >>]

\* register_default_frameworks: the registry the agent starts with
Registry ==
    ("python_generator" :> python_generator)
        @@ ("analysis_prompt" :> analysis_prompt)
        @@ ("test_harness" :> test_harness)

\* str.replace(old, new): every occurrence, left to right, the text put in
\* is not scanned again
RECURSIVE Replace(_, _, _)
Replace(text, old, new) ==
    IF text = <<>> THEN <<>>
    ELSE (IF Head(text) = old THEN new ELSE <<Head(text)>>) \o Replace(Tail(text), old, new)

\* for key, value in params.items(): rendered = rendered.replace(...)
RECURSIVE Substitute(_, _)
Substitute(template, params) ==
    IF params = <<>> THEN template
    ELSE Substitute(Replace(template, Placeholder(params[1][1]), params[1][2]),
                    Tail(params))

\* "\n".join(parts)
RECURSIVE JoinLines(_)
JoinLines(parts) ==
    IF parts = <<>> THEN <<>>
    ELSE IF Len(parts) = 1 THEN parts[1]
    ELSE parts[1] \o <<"nl">> \o JoinLines(Tail(parts))

\* f"# Component: {component_name}"
ComponentHeader(component_name) == <<".", "sp", "x", ".", "sp", "x">>

RECURSIVE RenderParts(_, _)
RenderParts(components, params) ==
    IF components = <<>> THEN <<>>
    ELSE <<ComponentHeader(components[1][1]), Substitute(components[1][2], params), <<>> >>
            \o RenderParts(Tail(components), params)

render(framework, params) == JoinLines(RenderParts(framework.components, params))

\* f"# Framework: {fw_name} (type: {framework.type_}, language: {framework.language})"
FrameworkHeader(framework) ==
    <<".", "sp", "x", ".", "sp", "x", "sp", "(", "x", ".", "sp", "x", ".", "sp",
      "x", ".", "sp", "x", ".">>

RECURSIVE AssembleParts(_, _)
AssembleParts(framework_names, params) ==
    IF framework_names = <<>> THEN <<>>
    ELSE LET framework == Registry[Head(framework_names)]
         IN  <<FrameworkHeader(framework), render(framework, params)>>
                \o AssembleParts(Tail(framework_names), params)

\* ToolAssembler(registry) leaves safety_enforcer at its default
None == "None"
SafetyEnforcerGiven == "SafetyEnforcer"

\* a variant of the loop that passes over the names it does not find
KnownPrefix_SkipsUnknown(framework_names) ==
    SelectSeq(framework_names, LAMBDA n : n \in DOMAIN Registry)

\* for fw_name in framework_names: the names rendered before the loop ends,
\* which it does by returning at the first name registry.get does not find
RECURSIVE KnownPrefix(_)
KnownPrefix(framework_names) ==
    IF framework_names = <<>> THEN <<>>
    ELSE IF Head(framework_names) \notin DOMAIN Registry THEN <<>>
    ELSE <<Head(framework_names)>> \o KnownPrefix(Tail(framework_names))

\* what one call of assemble does: the frameworks it renders, whether it
\* calls check_code_safety, and the dictionary it returns
AssembleCall(safety_enforcer, framework_names, params) ==
    LET rendered == KnownPrefix(framework_names)
    IN  IF framework_names = <<>>
        THEN [rendered |-> <<>>, checked |-> FALSE,
              result |-> [success |-> FALSE, error |-> <<"No frameworks specified">>,
                          code |-> <<>>]]
        ELSE IF Len(rendered) < Len(framework_names)
        THEN [rendered |-> rendered, checked |-> FALSE,
              result |-> [success |-> FALSE,
                          error |-> <<"Framework not found",
                                      framework_names[Len(rendered) + 1]>>,
                          code |-> <<>>]]
        ELSE LET assembled_code == JoinLines(AssembleParts(framework_names, params))
             IN  [rendered |-> rendered, checked |-> safety_enforcer # None,
                  result |->
                    IF safety_enforcer # None /\ ~check_code_safety(assembled_code)[1]
                    THEN [success |-> FALSE, error |-> <<"Safety check failed">>,
                          code |-> assembled_code]
                    ELSE [success |-> TRUE, code |-> assembled_code]]

assemble(safety_enforcer, framework_names, params) ==
    AssembleCall(safety_enforcer, framework_names, params).result

FrameworkNameInputs == DOMAIN Registry \cup {"missing", "absent"}

ParamKeyInputs == {"function_name", "description"}

ParamValueInputs ==
    {<<"eval">>, <<"open", "(", "'", "w">>, <<Placeholder("function_name")>>}

\* dictionaries in insertion order: no key twice
ParamInputs ==
    {ps \in SeqsUpTo(ParamKeyInputs \X ParamValueInputs, MaxParams) :
        \A i, j \in 1..Len(ps) : i # j => ps[i][1] # ps[j][1]}

AssembleInputs ==
    {[kind |-> "assemble", safety_enforcer |-> e, framework_names |-> ns, params |-> ps] :
        e \in {None, SafetyEnforcerGiven},
        ns \in SeqsUpTo(FrameworkNameInputs, MaxFrameworks),
        ps \in ParamInputs}

RenderInputs ==
    {[kind |-> "render", framework |-> n, params |-> ps] :
        n \in DOMAIN Registry, ps \in ParamInputs}

InitAssemble ==
    /\ sfIn \in AssembleInputs \cup RenderInputs
    /\ sfOut = Pending
    /\ IdleLedger /\ IdleRun /\ IdleExec /\ IdleWriters

\* ToolAssembler.__init__
NewToolAssembler ==
    /\ sfOut = Pending
    /\ sfIn.kind = "assemble"
    /\ sfOut' = <<[safety_enforcer |-> sfIn.safety_enforcer], "ToolAssembler">>
    /\ UNCHANGED <<sfIn, ledgerVars, runVars, execVars, writerVars>>

\* ToolAssembler.assemble
Assemble ==
    /\ sfOut # Pending
    /\ sfOut[2] = "ToolAssembler"
    /\ LET call == AssembleCall(sfOut[1].safety_enforcer, sfIn.framework_names,
                                sfIn.params)
       IN  sfOut' = <<call.result, "assemble",
                      [rendered |-> call.rendered, checked |-> call.checked]>>
    /\ UNCHANGED <<sfIn, ledgerVars, runVars, execVars, writerVars>>

\* Framework.render
Render ==
    /\ sfOut = Pending
    /\ sfIn.kind = "render"
    /\ sfOut' = <<render(Registry[sfIn.framework], sfIn.params), "render">>
    /\ UNCHANGED <<sfIn, ledgerVars, runVars, execVars, writerVars>>

NextAssemble ==
    \/ NewToolAssembler
    \/ Assemble
    \/ Render

SpecAssemble == InitAssemble /\ [][NextAssemble]_vars

\* ------------------------------------------------------------------------
\* The executor: PythonExecutor.execute, step by step, for two invocations
\* on one workspace
\* ------------------------------------------------------------------------

EXECUTION_TIMEOUT == 15

MaxTick == 2            \* how far the millisecond clock advances
MaxDescendants == 1     \* processes a child starts

Invocations == {1, 2}

NoResult == [returned |-> FALSE]

\* self.exec_dir / f"exec_{int(time.time() * 1000)}.py"
ExecFileName(now) == <<"exec_", now, ".py">>

\* the result built from the CompletedProcess
CompletedResult(returncode) ==
    [success |-> returncode = 0, stdout |-> "captured", stderr |-> <<"captured">>,
     returncode |-> returncode]

TimeoutResult_KeepsExitCode ==
    [success |-> FALSE, stdout |-> "", stderr |-> <<"Execution timeout", EXECUTION_TIMEOUT>>,
     returncode |-> 1]

\* except subprocess.TimeoutExpired
TimeoutResult ==
    [success |-> FALSE, stdout |-> "", stderr |-> <<"Execution timeout", EXECUTION_TIMEOUT>>,
     returncode |-> -1]

\* except Exception as e
FaultResult(e) ==
    [success |-> FALSE, stdout |-> "", stderr |-> <<e>>, returncode |-> -1]

exists_Never(dir, name) == FALSE

\* exec_file.exists()
exists(dir, name) == \E f \in dir : f.name = name

\* the directory after name is written with the code of invocation i
WithFile(dir, name, i) == {f \in dir : f.name # name} \cup {[name |-> name, by |-> i]}

\* the directory after exec_file.unlink()
WithoutFile(dir, name) == {f \in dir : f.name # name}

\* whose code the interpreter finds under name (0: no such file)
CodeUnder(dir, name) ==
    IF exists(dir, name) THEN (CHOOSE f \in dir : f.name = name).by ELSE 0

Child(i) == [owner |-> i, kind |-> "child"]
Descendant(i, n) == [owner |-> i, kind |-> "descendant", n |-> n]

IdleInvocation ==
    [pc |-> "idle", exec_file |-> <<>>, result |-> NoResult, event |-> "none",
     created |-> FALSE, ran |-> 0, exited |-> FALSE, exit_code |-> 0]

InitExecutor ==
    /\ tick = 0
    /\ exec_dir = {}
    /\ inv = [i \in Invocations |-> IdleInvocation]
    /\ procs = {}

InitExec == IdleSafety /\ IdleLedger /\ IdleRun /\ InitExecutor /\ IdleWriters

\* the result is ready: control passes to the finally clause
Finish(i, event, result) ==
    inv' = [inv EXCEPT ![i].pc = "finally", ![i].event = event, ![i].result = result]

\* execute(code, skill_name) is called: the file name is taken from the clock
Call(i) ==
    /\ inv[i].pc = "idle"
    /\ inv' = [inv EXCEPT ![i].pc = "write", ![i].exec_file = ExecFileName(tick)]
    /\ UNCHANGED <<tick, exec_dir, procs, safetyVars, writerVars, ledgerVars, runVars>>

\* exec_file.write_text(code): it succeeds, or it raises before or after
\* the file has been created
WriteCode(i) ==
    \E fate \in {"written", "not_created", "partial"} :
        /\ inv[i].pc = "write"
        /\ IF fate = "not_created"
           THEN UNCHANGED exec_dir
           ELSE exec_dir' = WithFile(exec_dir, inv[i].exec_file, i)
        /\ IF fate = "written"
           THEN inv' = [inv EXCEPT ![i].pc = "spawn", ![i].created = TRUE]
           ELSE inv' = [inv EXCEPT ![i].pc = "finally", ![i].event = "write_failed",
                                   ![i].result = FaultResult("OSError"),
                                   ![i].created = (fate = "partial")]
        /\ UNCHANGED <<tick, procs, safetyVars, writerVars, ledgerVars, runVars>>

\* subprocess.run starts python3 on the file, or fails to start it
Spawn(i) ==
    \E started \in BOOLEAN :
        /\ inv[i].pc = "spawn"
        /\ IF started
           THEN /\ procs' = procs \cup {Child(i)}
                /\ inv' = [inv EXCEPT ![i].pc = "wait",
                                      ![i].ran = CodeUnder(exec_dir, inv[i].exec_file)]
           ELSE /\ Finish(i, "no_interpreter", FaultResult("FileNotFoundError"))
                /\ UNCHANGED procs
        /\ UNCHANGED <<tick, exec_dir, safetyVars, writerVars, ledgerVars, runVars>>

\* the running child starts a process of its own
ChildForks(i) ==
    /\ inv[i].pc = "wait"
    /\ Child(i) \in procs
    /\ \E n \in 1..MaxDescendants :
        /\ Descendant(i, n) \notin procs
        /\ procs' = procs \cup {Descendant(i, n)}
    /\ UNCHANGED <<tick, exec_dir, inv, safetyVars, writerVars, ledgerVars, runVars>>

\* a process started by a child ends by itself
DescendantExits(i) ==
    /\ \E n \in 1..MaxDescendants :
        /\ Descendant(i, n) \in procs
        /\ procs' = procs \ {Descendant(i, n)}
    /\ UNCHANGED <<tick, exec_dir, inv, safetyVars, writerVars, ledgerVars, runVars>>

\* the child ends in time; with text=True its output is decoded, which
\* raises when the bytes are not valid text
ChildExits(i) ==
    \E returncode \in {0, 1}, decodable \in BOOLEAN :
        /\ inv[i].pc = "wait"
        /\ Child(i) \in procs
        /\ inv[i].ran = 0 => returncode # 0
        /\ procs' = procs \ {Child(i)}
        /\ inv' = [inv EXCEPT ![i].pc = "finally",
                              ![i].event = IF decodable THEN "exit" ELSE "undecodable",
                              ![i].result = IF decodable
                                            THEN CompletedResult(returncode)
                                            ELSE FaultResult("UnicodeDecodeError"),
                              ![i].exited = TRUE,
                              ![i].exit_code = returncode]
        /\ UNCHANGED <<tick, exec_dir, safetyVars, writerVars, ledgerVars, runVars>>

\* the timeout expires: subprocess.run kills the child it started, waits
\* for it and raises TimeoutExpired
Timeout(i) ==
    /\ inv[i].pc = "wait"
    /\ Child(i) \in procs
    /\ procs' = procs \ {Child(i)}
    /\ Finish(i, "timeout", TimeoutResult)
    /\ UNCHANGED <<tick, exec_dir, safetyVars, writerVars, ledgerVars, runVars>>

\* finally: if exec_file.exists()
CheckExists(i) ==
    /\ inv[i].pc = "finally"
    /\ inv' = [inv EXCEPT ![i].pc = IF exists(exec_dir, inv[i].exec_file)
                                    THEN "unlink" ELSE "returned"]
    /\ UNCHANGED <<tick, exec_dir, procs, safetyVars, writerVars, ledgerVars, runVars>>

\* finally: exec_file.unlink(), which raises when the file is gone
Unlink(i) ==
    /\ inv[i].pc = "unlink"
    /\ IF exists(exec_dir, inv[i].exec_file)
       THEN /\ exec_dir' = WithoutFile(exec_dir, inv[i].exec_file)
            /\ inv' = [inv EXCEPT ![i].pc = "returned"]
       ELSE /\ inv' = [inv EXCEPT ![i].pc = "raised"]
            /\ UNCHANGED exec_dir
    /\ UNCHANGED <<tick, procs, safetyVars, writerVars, ledgerVars, runVars>>

\* a millisecond passes
Tick ==
    /\ tick < MaxTick
    /\ tick' = tick + 1
    /\ UNCHANGED <<exec_dir, inv, procs, safetyVars, writerVars, ledgerVars, runVars>>

NextExec ==
    \/ Tick
    \/ \E i \in Invocations :
        \/ Call(i)
        \/ WriteCode(i)
        \/ Spawn(i)
        \/ ChildForks(i)
        \/ DescendantExits(i)
        \/ ChildExits(i)
        \/ Timeout(i)
        \/ CheckExists(i)
        \/ Unlink(i)

SpecExec == InitExec /\ [][NextExec]_vars

\* ------------------------------------------------------------------------
\* The controller: names, collaborator responses, the file system, the
\* executor as the controller sees it
\* ------------------------------------------------------------------------

MAX_ITERATIONS == 12
NAME_LIMIT == 30        \* goal.lower().replace(" ", "_")[:30]
SNIPPET_LIMIT == 500    \* code[:500]

MaxRunFailures == 1     \* failure records one run may add to the ledger
MaxToolCalls == 1       \* tool invocations of one llm-central run

Modes == {"graph", "llm-central"}

NoName == <<"None">>    \* run(goal, skill_name=None)

\* str.lower() and str.replace(" ", "_") of one character
LowerChar(c) == IF c = "A" THEN "a" ELSE c
SpaceToUnderscore(c) == IF c = " " THEN "_" ELSE c

\* [a-z0-9_] among the characters of the model
NameChars == {"a", "b", "x", "_", "1"}

Prefix(seq, n) == SubSeq(seq, 1, IF Len(seq) < n THEN Len(seq) ELSE n)

\* run: the skill name derived from the goal
DeriveName(g) ==
    LET lowered == [i \in 1..Len(g) |-> SpaceToUnderscore(LowerChar(g[i]))]
    IN  SelectSeq(Prefix(lowered, NAME_LIMIT), LAMBDA c : c \in NameChars)

\* pathlib's parsing of a path string: components between "/", empty ones
\* dropped, a leading "/" makes it absolute
RECURSIVE SplitPath(_, _, _)
SplitPath(chars, cur, acc) ==
    IF chars = <<>> THEN (IF cur = <<>> THEN acc ELSE Append(acc, cur))
    ELSE IF Head(chars) = "/"
         THEN SplitPath(Tail(chars), <<>>, IF cur = <<>> THEN acc ELSE Append(acc, cur))
         ELSE SplitPath(Tail(chars), Append(cur, Head(chars)), acc)

ParsePath(chars) ==
    [abs |-> chars # <<>> /\ Head(chars) = "/",
     segs |-> SelectSeq(SplitPath(chars, <<>>, <<>>), LAMBDA c : c # Dot)]

\* SKILLS_DIR / f"{skill_name}.py"
SkillFile(name) == PathJoin(SKILLS_DIR, ParsePath(name \o <<".", "p", "y">>))

\* the directories that exist
Directories ==
    {<<>>, CWD, WORKSPACE_ROOT, SKILLS_DIR, EXEC_DIR, <<OutsideName>>,
     <<CwdName, SiblingName>>}

\* Path.write_text: where the file lands, or the exception
WriteText(path, io_error) ==
    IF \E i \in 1..Len(path) : "NUL" \in {path[i][j] : j \in 1..Len(path[i])}
    THEN [ok |-> FALSE, target |-> <<>>]
    ELSE LET target == Resolve(path)
         IN  IF \/ io_error
                \/ target = <<>>
                \/ target \in Directories
                \/ SubSeq(target, 1, Len(target) - 1) \notin Directories
             THEN [ok |-> FALSE, target |-> target]
             ELSE [ok |-> TRUE, target |-> target]

\* the skill names a caller of run() can give
CallerNames ==
    { <<"a">>,
      <<".", ".", "/", ".", ".", "/", "x">>,
      <<"b", "/", "x">> }

\* the skill names a decision payload can carry, beside the run's own
PayloadNames == { <<".", ".", "/", "x">>, <<"/", "o", "/", "x">> }

\* the other skill a test_skill or memory_ops payload can name
OtherSkill == <<"b">>

RunGoals == { <<"A", " ", "b">>, <<".", ".", "/", "x">> }

\* the calls of run(goal, skill_name)
RunInputs ==
    {<<g, NoName>> : g \in RunGoals} \cup {<<<<"A", " ", "b">>, n>> : n \in CallerNames}

\* the skill names these calls run under
RunNames ==
    {IF input[2] = NoName THEN DeriveName(input[1]) ELSE input[2] : input \in RunInputs}

\* skill_file.write_text(code) for each name that can reach a write step,
\* with and without an I/O error: WriteText on SKILLS_DIR / f"{name}.py"
WrittenAs ==
    [name \in RunNames \cup PayloadNames |->
        [io_error \in BOOLEAN |-> WriteText(SkillFile(name), io_error)]]

\* what the collaborator answers when asked for code
CodeResponses ==
    { <<"w">>,
      <<"fence_python", "nl", "x", "nl", "fence">>,
      <<"fence", "nl", "eval", "(", "nl", "fence">>,
      <<"sp", "open", "(", "'", "w", "nl">> }

\* str.strip()
RECURSIVE StripLeft(_)
StripLeft(seq) ==
    IF seq # <<>> /\ Head(seq) \in Whitespace THEN StripLeft(Tail(seq)) ELSE seq

RECURSIVE StripRight(_)
StripRight(seq) ==
    IF seq # <<>> /\ seq[Len(seq)] \in Whitespace
    THEN StripRight(SubSeq(seq, 1, Len(seq) - 1)) ELSE seq

Strip(seq) == StripRight(StripLeft(seq))

\* the position of the last closing fence, 0 when there is none
LastFence(seq) ==
    LET at == {i \in 1..Len(seq) : seq[i] = "fence"}
    IN  IF at = {} THEN 0 ELSE CHOOSE i \in at : \A j \in at : j <= i

\* text.rsplit(fence, 1)[0]
BeforeLastFence(seq) ==
    IF LastFence(seq) = 0 THEN seq ELSE SubSeq(seq, 1, LastFence(seq) - 1)

\* the code taken from the response: fences removed, then stripped
ExtractCode(content) ==
    LET code == Strip(content)
    IN  IF code # <<>> /\ Head(code) \in {"fence_python", "fence"}
        THEN Strip(BeforeLastFence(Tail(code)))
        ELSE code

\* response.content -> the code and the verdict of check_code_safety on
\* it, for each response
Planned ==
    [content \in CodeResponses |->
        LET code == ExtractCode(content)
        IN  [code |-> code, verdict |-> check_code_safety(code)]]

\* what PythonExecutor.execute can return
ExecOutcomes ==
    { [kind |-> "exit0", success |-> TRUE, stderr |-> "", returncode |-> 0,
       spawned |-> TRUE],
      [kind |-> "exit1", success |-> FALSE, stderr |-> "Traceback", returncode |-> 1,
       spawned |-> TRUE],
      [kind |-> "timeout", success |-> FALSE, stderr |-> "Execution timeout",
       returncode |-> -1, spawned |-> TRUE],
      [kind |-> "fault", success |-> FALSE, stderr |-> "fault", returncode |-> -1,
       spawned |-> FALSE] }

\* the code samples a decision payload can carry
PayloadCodes == { <<"w">>, <<"eval", "(">> }

\* what the collaborator answers when asked for a verdict
AnalysisResponses ==
    { <<"SUCCESS", ":">>, <<"sp", "success">>, <<"FAILURE", ":">>, <<"x", "SUCCESS">>,
      <<>> }

\* str.upper() of one token
Upper(t) == IF t = "success" THEN "SUCCESS" ELSE t

\* analysis.upper().startswith("SUCCESS") on the stripped response
IsSuccess(content) ==
    LET analysis == Strip(content)
    IN  analysis # <<>> /\ Upper(Head(analysis)) = "SUCCESS"

\* ------------------------------------------------------------------------
\* The agent: construction and run()
\* ------------------------------------------------------------------------

\* AutonomousAgent(mode): the ledger is bootstrapped, the directories exist
InitRun ==
    /\ mode \in Modes
    /\ pc = "ready"
    /\ goal = <<>>
    /\ skill_name = <<>>
    /\ status = Idle
    /\ iteration = 0
    /\ skill_code = <<>>
    /\ test_result = ""
    /\ history = <<>>
    /\ outcome = "none"
    /\ disk = {}
    /\ executed = {}
    /\ checked = {}
    /\ rounds = NoRounds
    /\ verdicts = <<>>
    /\ decision = NoDecision

InitAgentLedger ==
    /\ file = _write(EmptyLedger(1), 1)
    /\ clock = 2
    /\ last = [op |-> "__init__", wrote |-> TRUE]
    /\ prev = Absent
    /\ writes = 1
    /\ issued = {}
    /\ logged = <<>>

InitAgent == IdleSafety /\ InitAgentLedger /\ InitRun /\ IdleExec /\ IdleWriters

\* run(goal, skill_name): the name is derived when none is given, then the
\* mode's loop starts
Run ==
    \E input \in RunInputs :
        /\ pc = "ready"
        /\ goal' = input[1]
        /\ skill_name' = IF input[2] = NoName THEN DeriveName(input[1]) ELSE input[2]
        /\ iteration' = 1
        /\ skill_code' = <<>>
        /\ test_result' = ""
        /\ history' = <<>>
        /\ outcome' = "running"
        /\ IF mode = "llm-central"
           THEN pc' = "decide" /\ UNCHANGED status
           ELSE pc' = "plan_skill" /\ status' = "planning"
        /\ UNCHANGED <<rounds, verdicts, decision>>
        /\ UNCHANGED <<mode, disk, executed, checked, safetyVars, writerVars, execVars, ledgerVars>>

\* ------------------------------------------------------------------------
\* Graph mode
\* ------------------------------------------------------------------------

router_SuccessReplans(state_status) ==
    CASE state_status \in {"success", "planning"} -> "plan_skill"
      [] state_status = "coding" -> "write_skill"
      [] state_status = "testing" -> "test_skill"
      [] state_status = "analyzing" -> "analyze_results"
      [] OTHER -> "end"

router_CodingTests(state_status) ==
    CASE state_status \in {"coding", "testing"} -> "test_skill"
      [] state_status = "planning" -> "plan_skill"
      [] state_status = "analyzing" -> "analyze_results"
      [] OTHER -> "end"

\* router: the node that runs next
router(state_status) ==
    CASE state_status = "success" -> "end"
      [] state_status = "failed" -> "end"
      [] state_status = "planning" -> "plan_skill"
      [] state_status = "coding" -> "write_skill"
      [] state_status = "testing" -> "test_skill"
      [] state_status = "analyzing" -> "analyze_results"
      [] OTHER -> "end"

InGraph(node) == mode = "graph" /\ pc = node

\* node plan_skill
GraphPlan ==
    /\ InGraph("plan_skill")
    /\ \E content \in CodeResponses :
        LET code == Planned[content].code
            verdict == Planned[content].verdict
        IN  /\ IF verdict[1]
               THEN /\ skill_code' = code
                    /\ status' = "coding"
                    /\ checked' = checked \cup {code}
               ELSE /\ skill_code' = <<>>
                    /\ status' = "failed"
                    /\ UNCHANGED checked
            /\ pc' = router(status')
            /\ rounds' = [rounds EXCEPT !.plan = @ + 1]
            /\ UNCHANGED <<verdicts, decision>>
            /\ UNCHANGED <<mode, goal, skill_name, iteration, test_result, history,
                           outcome, disk, executed, safetyVars, writerVars, execVars, ledgerVars>>

\* node write_skill
GraphWrite ==
    /\ InGraph("write_skill")
    /\ \E io_error \in BOOLEAN :
        LET written == WrittenAs[skill_name][io_error]
        IN  /\ IF written.ok
               THEN /\ disk' = disk \cup {[target |-> written.target, name |-> skill_name]}
                    /\ status' = "testing"
               ELSE /\ status' = "failed"
                    /\ UNCHANGED disk
            /\ pc' = router(status')
            /\ rounds' = [rounds EXCEPT !.write = @ + 1]
            /\ UNCHANGED <<verdicts, decision>>
            /\ UNCHANGED <<mode, goal, skill_name, iteration, skill_code, test_result,
                           history, outcome, executed, checked, safetyVars, writerVars, execVars, ledgerVars>>

\* node test_skill
GraphTest ==
    \E result \in ExecOutcomes :
        /\ InGraph("test_skill")
        /\ executed' = executed \cup {[code |-> skill_code, spawned |-> result.spawned]}
        /\ IF result.success
           THEN UNCHANGED ledgerVars
           ELSE /\ Len(logged) < MaxRunFailures
                /\ LogFailureStep(skill_name, result.stderr,
                                  Prefix(skill_code, SNIPPET_LIMIT))
        /\ test_result' = result.kind
        /\ status' = "analyzing"
        /\ pc' = router(status')
        /\ rounds' = [rounds EXCEPT !.test = @ + 1]
        /\ UNCHANGED <<verdicts, decision>>
        /\ UNCHANGED <<mode, goal, skill_name, iteration, skill_code, history, outcome,
                       disk, checked, safetyVars, writerVars, execVars>>

\* a variant that plans again when the budget is spent
GraphAnalyze_OneMore ==
    \E content \in AnalysisResponses :
        /\ InGraph("analyze_results")
        /\ IF IsSuccess(content)
           THEN /\ AddSkillStep(skill_name, goal, "working")
                /\ status' = "success"
           ELSE IF iteration <= MAX_ITERATIONS
           THEN /\ status' = "planning"
                /\ UNCHANGED ledgerVars
           ELSE /\ status' = "failed"
                /\ AddSkillStep(skill_name, goal, "failed")
        /\ iteration' = iteration + 1
        /\ pc' = router(status')
        /\ rounds' = [rounds EXCEPT !.analyze = @ + 1]
        /\ verdicts' = Append(verdicts, IsSuccess(content))
        /\ UNCHANGED decision
        /\ UNCHANGED <<mode, goal, skill_name, skill_code, test_result, history, outcome,
                       disk, executed, checked, safetyVars, writerVars, execVars>>

\* node analyze_results
GraphAnalyze ==
    \E content \in AnalysisResponses :
        /\ InGraph("analyze_results")
        /\ IF IsSuccess(content)
           THEN /\ AddSkillStep(skill_name, goal, "working")
                /\ status' = "success"
           ELSE IF iteration < MAX_ITERATIONS
           THEN /\ status' = "planning"
                /\ UNCHANGED ledgerVars
           ELSE /\ status' = "failed"
                /\ AddSkillStep(skill_name, goal, "failed")
        /\ iteration' = iteration + 1
        /\ pc' = router(status')
        /\ rounds' = [rounds EXCEPT !.analyze = @ + 1]
        /\ verdicts' = Append(verdicts, IsSuccess(content))
        /\ UNCHANGED decision
        /\ UNCHANGED <<mode, goal, skill_name, skill_code, test_result, history, outcome,
                       disk, executed, checked, safetyVars, writerVars, execVars>>

\* run_graph_mode: the stream is exhausted
GraphEnd ==
    /\ InGraph("end")
    /\ outcome' = "True"
    /\ pc' = "done"
    /\ UNCHANGED <<rounds, verdicts, decision>>
    /\ UNCHANGED <<mode, goal, skill_name, status, iteration, skill_code, test_result,
                   history, disk, executed, checked, safetyVars, writerVars, execVars, ledgerVars>>

\* run_graph_mode: the stream raises before a node completes (the
\* collaborator or the ledger fails, or the graph library stops the stream)
GraphException ==
    /\ mode = "graph"
    /\ pc \in {"plan_skill", "write_skill", "test_skill", "analyze_results"}
    /\ outcome' = "False"
    /\ pc' = "done"
    /\ UNCHANGED <<rounds, verdicts, decision>>
    /\ UNCHANGED <<mode, goal, skill_name, status, iteration, skill_code, test_result,
                   history, disk, executed, checked, safetyVars, writerVars, execVars, ledgerVars>>


\* ------------------------------------------------------------------------
\* LLM-central mode: one pass of the loop of run_llm_central per action,
\* by the decision that decide_next_action returns
\* ------------------------------------------------------------------------

ToolNames ==
    {"plan_skill", "write_skill", "test_skill", "analyze_results", "memory_ops",
     "langgraph_planner"}

\* the decisions on which run_llm_central returns
TerminalDecisions == {"COMPLETE", "FAILED", "DIRECT_ANSWER"}

ControllerName == <<"llm_controller">>

\* a response that json.loads rejects
UnparsableResponse == <<"PARAMS", ":", "{", "x", "}">>

\* what the assembler renders from the registered frameworks
AssembledCode == <<"x", "nl", "w">>

\* ------------------------------------------------------------------------
\* decide_next_action: the response of the collaborator, parsed
\* ------------------------------------------------------------------------

\* \w among the tokens of a response
DecisionWords ==
    ToolNames \cup TerminalDecisions \cup
        {"RETRY_PLAN", "DECISION", "ACTION", "PARAMS", "why", "x"}

\* the label "DECISION:", "ACTION:" or "PARAMS:" at position i
KeywordAt(content, kw, i) ==
    /\ i + 1 <= Len(content)
    /\ content[i] = kw
    /\ content[i + 1] = ":"

\* \s* from position i: the first position that holds no whitespace
RECURSIVE SkipSpace(_, _)
SkipSpace(content, i) ==
    IF i <= Len(content) /\ content[i] \in Whitespace
    THEN SkipSpace(content, i + 1) ELSE i

Least(S) == CHOOSE i \in S : \A j \in S : i <= j
Greatest(S) == CHOOSE i \in S : \A j \in S : j <= i

\* re.search(r'DECISION:\s*(.+?)(?=\nACTION:)', content, re.DOTALL): the
\* pairs (start of the label, position of the newline before ACTION:)
DecisionMatches(content) ==
    {<<i, p>> \in (1..Len(content)) \X (1..Len(content)) :
        /\ KeywordAt(content, "DECISION", i)
        /\ p >= i + 3
        /\ content[p] = "nl"
        /\ KeywordAt(content, "ACTION", p + 1)}

\* re.search(r'ACTION:\s*(\w+)', content): the positions of the word
ActionMatches(content) ==
    {j \in 1..Len(content) :
        /\ content[j] \in DecisionWords
        /\ \E i \in 1..Len(content) :
                KeywordAt(content, "ACTION", i) /\ j = SkipSpace(content, i + 2)}

\* re.search(r'PARAMS:\s*(\{.+\})', content, re.DOTALL): the positions of
\* the opening brace; the group runs to the last closing brace
ParamsMatches(content) ==
    {j \in 1..Len(content) :
        /\ content[j] = "{"
        /\ \E i \in 1..Len(content) :
                KeywordAt(content, "PARAMS", i) /\ j = SkipSpace(content, i + 2)
        /\ \E e \in (j + 2)..Len(content) : content[e] = "}"}

\* the members of a JSON object: "kv" stands for one "key": value pair
RECURSIVE IsPairs(_)
IsPairs(s) ==
    \/ s = <<"kv">>
    \/ Len(s) >= 3 /\ s[1] = "kv" /\ s[2] = "," /\ IsPairs(SubSeq(s, 3, Len(s)))

\* json.loads accepts the text between the braces
ValidJsonBody(body) ==
    LET members == SelectSeq(body, LAMBDA t : t \notin Whitespace)
    IN  members = <<>> \/ IsPairs(members)

PairsOf(body) == Len(SelectSeq(body, LAMBDA t : t = "kv"))

\* decide_next_action, from the collaborator's response on: what it returns
\* and whether it went through the except branch
decide_next_action(response, for_goal, for_skill, at_iteration) ==
    LET content == Strip(response)
        dm == DecisionMatches(content)
        am == ActionMatches(content)
        pm == ParamsMatches(content)
        reasoning ==
            IF dm = {} THEN <<"No reasoning provided">>
            ELSE LET i == Least({m[1] : m \in dm})
                     p == Least({m[2] : m \in {n \in dm : n[1] = i}})
                 IN  Strip(SubSeq(content, i + 2, p - 1))
        action == IF am = {} THEN "plan_skill" ELSE content[Least(am)]
        body ==
            IF pm = {} THEN <<>>
            ELSE LET j == Least(pm)
                     e == Greatest({k \in (j + 2)..Len(content) : content[k] = "}"})
                 IN  SubSeq(content, j + 1, e - 1)
    IN  IF pm # {} /\ ~ValidJsonBody(body)
        THEN [fallback |-> TRUE,
              reasoning |-> <<"Parse error, defaulting to plan">>,
              action |-> "plan_skill",
              params |-> [goal |-> for_goal, skill_name |-> for_skill,
                          iteration |-> at_iteration]]
        ELSE [fallback |-> FALSE,
              reasoning |-> reasoning,
              action |-> action,
              params |-> [pairs |-> IF pm = {} THEN 0 ELSE PairsOf(body)]]

\* the responses of the collaborator: a reasoning part, an action part and
\* a parameter part, each present, absent or malformed
ReasoningParts ==
    { <<>>, <<"DECISION", ":", "sp", "why", "nl">>, <<"DECISION", ":", "nl">> }

ActionParts ==
    { <<>>,
      <<"ACTION", ":", "sp", "plan_skill", "nl">>,
      <<"ACTION", ":", "sp", "COMPLETE", "nl">>,
      <<"ACTION", ":", "nl">> }

ParamsParts ==
    { <<>>,
      <<"PARAMS", ":", "sp", "{", "}">>,
      <<"PARAMS", ":", "sp", "{", "kv", ",", "kv", "}">>,
      <<"PARAMS", ":", "sp", "{", "x", "}">>,
      <<"PARAMS", ":", "sp", "{", "kv">>,
      <<"PARAMS", ":", "sp", "{", "kv", "}", "nl", "x", "}">> }

DecisionResponses ==
    {r \o a \o p : r \in ReasoningParts, a \in ActionParts, p \in ParamsParts}

InLoop_NoBudget == mode = "llm-central" /\ pc = "decide"

\* while iteration <= MAX_ITERATIONS
InLoop == mode = "llm-central" /\ pc = "decide" /\ iteration <= MAX_ITERATIONS

CanCallTool == InLoop /\ Len(history) < MaxToolCalls

\* what decide_next_action returned, with the ledger, the history and the
\* iteration counter it was asked under
Decided(action, fallback) ==
    [action |-> action, fallback |-> fallback, ledger |-> file, history |-> history,
     iteration |-> iteration]

\* action tokens that are neither in self.tools nor handled by name: the
\* one the prompt offers, and a tool name in another case
UnknownActions == {"RETRY_PLAN", "PLAN_SKILL"}

\* a decision for a tool, with the parameters of its payload and what the
\* tool met: the executor's result, or the failures shown to the planner
DecidedCall(action, params, met) ==
    [action |-> action, fallback |-> FALSE, ledger |-> file, history |-> history,
     iteration |-> iteration, params |-> params, met |-> met]

\* the error of a result that a failed safety check returns
SafetyCheckFailed == "Safety check failed"

\* history.append(...) and iteration += 1; the entry holds the tool's result
RecordedResult(action, success, error) ==
    /\ history' = Append(history, [action |-> action, success |-> success,
                                   error |-> error])
    /\ iteration' = iteration + 1

Recorded(action, success) == RecordedResult(action, success, "")

\* PlanTool.execute without frameworks, as the loop sees it
PlanByPrompt(content) ==
    LET code == Planned[content].code
        verdict == Planned[content].verdict
    IN  /\ IF verdict[1]
           THEN skill_code' = code /\ checked' = checked \cup {code}
           ELSE UNCHANGED <<skill_code, checked>>
        /\ RecordedResult("plan_skill", verdict[1],
                          IF verdict[1] THEN "" ELSE SafetyCheckFailed)

LlmDirectAnswer_Upserts ==
    /\ InLoop
    /\ AddSkillStep(skill_name, goal, "working")
    /\ outcome' = "True"
    /\ pc' = "done"
    /\ decision' = Decided("DIRECT_ANSWER", FALSE)
    /\ UNCHANGED <<rounds, verdicts>>
    /\ UNCHANGED <<mode, goal, skill_name, status, iteration, skill_code, test_result,
                   history, disk, executed, checked, safetyVars, writerVars, execVars>>

\* ACTION: DIRECT_ANSWER
LlmDirectAnswer ==
    /\ InLoop
    /\ outcome' = "True"
    /\ pc' = "done"
    /\ decision' = Decided("DIRECT_ANSWER", FALSE)
    /\ UNCHANGED <<rounds, verdicts>>
    /\ UNCHANGED <<mode, goal, skill_name, status, iteration, skill_code, test_result,
                   history, disk, executed, checked, safetyVars, writerVars, execVars, ledgerVars>>

LlmComplete_NoUpsert ==
    /\ InLoop
    /\ outcome' = "True"
    /\ pc' = "done"
    /\ decision' = Decided("COMPLETE", FALSE)
    /\ UNCHANGED <<rounds, verdicts>>
    /\ UNCHANGED <<mode, goal, skill_name, status, iteration, skill_code, test_result,
                   history, disk, executed, checked, safetyVars, writerVars, execVars, ledgerVars>>

\* ACTION: COMPLETE
LlmComplete ==
    /\ InLoop
    /\ AddSkillStep(skill_name, goal, "working")
    /\ outcome' = "True"
    /\ pc' = "done"
    /\ decision' = Decided("COMPLETE", FALSE)
    /\ UNCHANGED <<rounds, verdicts>>
    /\ UNCHANGED <<mode, goal, skill_name, status, iteration, skill_code, test_result,
                   history, disk, executed, checked, safetyVars, writerVars, execVars>>

\* ACTION: FAILED
LlmFailed ==
    /\ InLoop
    /\ AddSkillStep(skill_name, goal, "failed")
    /\ outcome' = "False"
    /\ pc' = "done"
    /\ decision' = Decided("FAILED", FALSE)
    /\ UNCHANGED <<rounds, verdicts>>
    /\ UNCHANGED <<mode, goal, skill_name, status, iteration, skill_code, test_result,
                   history, disk, executed, checked, safetyVars, writerVars, execVars>>

\* a variant that appends the decision to the history
LlmUnknownAction_Records ==
    \E action \in UnknownActions :
        /\ InLoop
        /\ Recorded(action, FALSE)
        /\ decision' = Decided(action, FALSE)
        /\ UNCHANGED <<rounds, verdicts>>
        /\ UNCHANGED <<mode, pc, goal, skill_name, status, skill_code, test_result,
                       outcome, disk, executed, checked, safetyVars, writerVars, execVars,
                       ledgerVars>>

\* an action that is no tool (RETRY_PLAN among them)
LlmUnknownAction ==
    \E action \in UnknownActions :
        /\ InLoop
        /\ iteration' = iteration + 1
        /\ decision' = Decided(action, FALSE)
        /\ UNCHANGED <<rounds, verdicts>>
        /\ UNCHANGED <<mode, pc, goal, skill_name, status, skill_code, test_result,
                       history, outcome, disk, executed, checked, safetyVars, writerVars,
                       execVars, ledgerVars>>

\* the parameters do not fit the tool's signature: the call raises
LlmBadParams ==
    \E action \in {"write_skill", "test_skill"} :
        /\ CanCallTool
        /\ Recorded(action, FALSE)
        /\ decision' = Decided(action, FALSE)
        /\ UNCHANGED <<rounds, verdicts>>
        /\ UNCHANGED <<mode, pc, goal, skill_name, status, skill_code, test_result,
                       outcome, disk, executed, checked, safetyVars, writerVars, execVars, ledgerVars>>

\* the response cannot be parsed: the failure is logged and plan_skill runs
\* with the run's goal, name and iteration
LlmParseFailure ==
    \E content \in CodeResponses :
        /\ CanCallTool
        /\ decide_next_action(UnparsableResponse, goal, skill_name, iteration).fallback
        /\ Len(logged) < MaxRunFailures
        /\ LogFailureStep(ControllerName, "Failed to parse LLM decision",
                          Prefix(UnparsableResponse, SNIPPET_LIMIT))
        /\ PlanByPrompt(content)
        /\ decision' = Decided("plan_skill", TRUE)
        /\ UNCHANGED <<rounds, verdicts>>
        /\ UNCHANGED <<mode, pc, goal, skill_name, status, test_result, outcome, disk,
                       executed, safetyVars, writerVars, execVars>>

\* ACTION: plan_skill, by what the payload carries and the collaborator
\* answers; without frameworks the prompt is built from
\* get_relevant_failures(skill_name)
PlanSkillCall(names, given, contents, tool_budget) ==
    \E name \in names, frameworks \in given :
        /\ InLoop
        /\ Len(history) < tool_budget
        /\ CASE frameworks = "none" ->
                    \E content \in contents : PlanByPrompt(content)
             [] frameworks = "unknown" ->
                    /\ Recorded("plan_skill", FALSE)
                    /\ UNCHANGED <<skill_code, checked>>
             [] frameworks = "registered" ->
                    LET verdict == check_code_safety(AssembledCode)
                    IN  /\ IF verdict[1]
                           THEN /\ skill_code' = AssembledCode
                                /\ checked' = checked \cup {AssembledCode}
                           ELSE UNCHANGED <<skill_code, checked>>
                        /\ RecordedResult("plan_skill", verdict[1],
                                          IF verdict[1] THEN "" ELSE SafetyCheckFailed)
        /\ decision' = DecidedCall("plan_skill",
                                   [skill_name |-> name, frameworks |-> frameworks],
                                   IF frameworks = "none"
                                   THEN get_relevant_failures(file, name, DEFAULT_LIMIT)
                                   ELSE <<>>)
        /\ UNCHANGED <<rounds, verdicts>>
        /\ UNCHANGED <<mode, pc, goal, skill_name, status, test_result, outcome, disk,
                       executed, safetyVars, writerVars, execVars, ledgerVars>>

LlmPlanSkill ==
    PlanSkillCall({skill_name}, {"none", "unknown", "registered"}, CodeResponses,
                  MaxToolCalls)

\* ACTION: write_skill, with the payload's skill_name and code
LlmWriteSkill ==
    /\ CanCallTool
    /\ \E name \in PayloadNames \cup {skill_name}, code \in PayloadCodes,
          io_error \in BOOLEAN :
        LET written == WrittenAs[name][io_error]
        IN  /\ IF written.ok
               THEN disk' = disk \cup {[target |-> written.target, name |-> name]}
               ELSE UNCHANGED disk
            /\ Recorded("write_skill", written.ok)
            /\ decision' = Decided("write_skill", FALSE)
            /\ UNCHANGED <<rounds, verdicts>>
            /\ UNCHANGED <<mode, pc, goal, skill_name, status, skill_code, test_result,
                           outcome, executed, checked, safetyVars, writerVars, execVars, ledgerVars>>

\* ACTION: test_skill, with the payload's skill_name and code
TestSkillCall(names, codes, results, tool_budget, failure_budget) ==
    \E name \in names, code \in codes, result \in results :
        /\ InLoop
        /\ Len(history) < tool_budget
        /\ executed' = executed \cup {[code |-> code, spawned |-> result.spawned]}
        /\ IF result.success
           THEN UNCHANGED ledgerVars
           ELSE /\ Len(logged) < failure_budget
                /\ LogFailureStep(name, result.stderr, Prefix(code, SNIPPET_LIMIT))
        /\ Recorded("test_skill", result.success)
        /\ decision' = DecidedCall("test_skill", [skill_name |-> name, code |-> code],
                                   result)
        /\ UNCHANGED <<rounds, verdicts>>
        /\ UNCHANGED <<mode, pc, goal, skill_name, status, skill_code, test_result,
                       outcome, disk, checked, safetyVars, writerVars, execVars>>

LlmTestSkill ==
    TestSkillCall({skill_name, OtherSkill}, PayloadCodes, ExecOutcomes, MaxToolCalls,
                  MaxRunFailures)

\* ACTION: analyze_results
LlmAnalyze ==
    \E content \in AnalysisResponses :
        /\ CanCallTool
        /\ Recorded("analyze_results", IsSuccess(content))
        /\ decision' = Decided("analyze_results", FALSE)
        /\ UNCHANGED <<rounds, verdicts>>
        /\ UNCHANGED <<mode, pc, goal, skill_name, status, skill_code, test_result,
                       outcome, disk, executed, checked, safetyVars, writerVars, execVars, ledgerVars>>

\* ACTION: memory_ops
LlmMemoryOps ==
    \E operation \in {"add_skill", "get_memory", "get_failures", "other"},
       name \in {skill_name, OtherSkill},
       skill_status \in {"untested", "working"},
       missing \in BOOLEAN :
        /\ CanCallTool
        /\ operation # "add_skill" => name = skill_name /\ skill_status = "untested"
        /\ operation \in {"get_memory", "other"} => ~missing
        /\ IF operation = "add_skill" /\ ~missing
           THEN AddSkillStep(name, goal, skill_status)
           ELSE UNCHANGED ledgerVars
        /\ Recorded("memory_ops", operation # "other" /\ ~missing)
        /\ decision' = Decided("memory_ops", FALSE)
        /\ UNCHANGED <<rounds, verdicts>>
        /\ UNCHANGED <<mode, pc, goal, skill_name, status, skill_code, test_result,
                       outcome, disk, executed, checked, safetyVars, writerVars, execVars>>

\* ACTION: langgraph_planner
LlmLanggraphPlanner ==
    \E raised \in BOOLEAN :
        /\ CanCallTool
        /\ Recorded("langgraph_planner", ~raised)
        /\ decision' = Decided("langgraph_planner", FALSE)
        /\ UNCHANGED <<rounds, verdicts>>
        /\ UNCHANGED <<mode, pc, goal, skill_name, status, skill_code, test_result,
                       outcome, disk, executed, checked, safetyVars, writerVars, execVars, ledgerVars>>

\* the loop ends without a terminal decision
LlmBudgetExhausted ==
    /\ mode = "llm-central"
    /\ pc = "decide"
    /\ iteration > MAX_ITERATIONS
    /\ AddSkillStep(skill_name, goal, "failed")
    /\ outcome' = "False"
    /\ pc' = "done"
    /\ UNCHANGED <<rounds, verdicts, decision>>
    /\ UNCHANGED <<mode, goal, skill_name, status, iteration, skill_code, test_result,
                   history, disk, executed, checked, safetyVars, writerVars, execVars>>

\* the collaborator is unreachable: decide_next_action raises
LlmException ==
    /\ InLoop
    /\ outcome' = "raised"
    /\ pc' = "done"
    /\ decision' = Decided("raised", FALSE)
    /\ UNCHANGED <<rounds, verdicts>>
    /\ UNCHANGED <<mode, goal, skill_name, status, iteration, skill_code, test_result,
                   history, disk, executed, checked, safetyVars, writerVars, execVars, ledgerVars>>

NextRun ==
    \/ Run
    \/ GraphPlan
    \/ GraphWrite
    \/ GraphTest
    \/ GraphAnalyze
    \/ GraphEnd
    \/ GraphException
    \/ LlmDirectAnswer
    \/ LlmComplete
    \/ LlmFailed
    \/ LlmUnknownAction
    \/ LlmBadParams
    \/ LlmParseFailure
    \/ LlmPlanSkill
    \/ LlmWriteSkill
    \/ LlmTestSkill
    \/ LlmAnalyze
    \/ LlmMemoryOps
    \/ LlmLanggraphPlanner
    \/ LlmBudgetExhausted
    \/ LlmException

SpecRun == InitAgent /\ [][NextRun]_vars

\* ------------------------------------------------------------------------
\* Runs in which every call of the collaborator returns: each step of run
\* is eventually taken
\* ------------------------------------------------------------------------

NextReturning ==
    \/ Run
    \/ GraphPlan
    \/ GraphWrite
    \/ GraphTest
    \/ GraphAnalyze
    \/ GraphEnd
    \/ GraphException
    \/ LlmDirectAnswer
    \/ LlmComplete
    \/ LlmFailed
    \/ LlmUnknownAction
    \/ LlmBadParams
    \/ LlmParseFailure
    \/ LlmPlanSkill
    \/ LlmWriteSkill
    \/ LlmTestSkill
    \/ LlmAnalyze
    \/ LlmMemoryOps
    \/ LlmLanggraphPlanner
    \/ LlmBudgetExhausted

SpecRunFair == InitAgent /\ [][NextReturning]_vars /\ WF_vars(NextReturning)

\* ------------------------------------------------------------------------
\* One call of decide_next_action at the head of the loop of
\* run_llm_central, by the response the collaborator gives
\* ------------------------------------------------------------------------

InitDecide == InitAgent /\ mode = "llm-central"

DecideNextAction ==
    \E response \in DecisionResponses :
        LET d == decide_next_action(response, goal, skill_name, iteration)
        IN  /\ InLoop
            /\ IF d.fallback
               THEN LogFailureStep(ControllerName, "Failed to parse LLM decision",
                                   Prefix(Strip(response), SNIPPET_LIMIT))
               ELSE UNCHANGED ledgerVars
            /\ decision' = [action |-> d.action, fallback |-> d.fallback,
                            params |-> d.params, reasoning |-> d.reasoning,
                            response |-> response, ledger |-> file,
                            history |-> history, iteration |-> iteration]
            /\ pc' = "decided"
            /\ UNCHANGED <<rounds, verdicts>>
            /\ UNCHANGED <<mode, goal, skill_name, status, iteration, skill_code,
                           test_result, history, outcome, disk, executed, checked,
                           safetyVars, writerVars, execVars>>

NextDecide ==
    \/ Run
    \/ LlmUnknownAction
    \/ DecideNextAction

SpecDecide == InitDecide /\ [][NextDecide]_vars

\* ------------------------------------------------------------------------
\* run_llm_central when the collaborator asks for test_skill and plan_skill
\* only, for the run's own skill: the loop over a longer stretch of its budget
\* ------------------------------------------------------------------------

MaxRetests == 7         \* tool invocations of one such run

RetestSkill ==
    TestSkillCall({skill_name}, {<<"w">>}, {r \in ExecOutcomes : r.kind \in {"exit0", "exit1"}},
                  MaxRetests, MaxRetests)

ReplanSkill == PlanSkillCall({skill_name}, {"none"}, {<<"w">>}, MaxRetests)

NextRetest ==
    \/ Run
    \/ RetestSkill
    \/ ReplanSkill

SpecRetest == InitDecide /\ [][NextRetest]_vars

\* ------------------------------------------------------------------------
\* Two processes on one memory.json: a mutation is a read of the file, a
\* change of the document read, and a _write of that document
\* ------------------------------------------------------------------------

WriterOps == {"log_failure", "add_skill", "add_directive"}

\* what each process stores: its own skill name, its own goal
WriterSkill(w) == IF w = 1 THEN "alpha" ELSE "beta"
WriterGoal(w) == IF w = 1 THEN "g1" ELSE "g2"

WrittenDocument_Stored(own, stored) == stored

\* self._write(memory): the document the caller read and changed is dumped,
\* whatever the file holds by then
WrittenDocument(own, stored) == own

\* the mutation of a process, applied to a document
Mutation(w, op, memory, now) ==
    CASE op = "log_failure" -> log_failure(memory, WriterSkill(w), "e1", "c1", now)
      [] op = "add_skill" -> add_skill(memory, WriterSkill(w), "d1", "untested", now)
      [] op = "add_directive" -> add_directive(memory, WriterGoal(w), now).doc

InitWriters == IdleSafety /\ InitAgentLedger /\ IdleRun /\ IdleExec /\ IdleWriters

\* the process calls log_failure, add_skill or add_directive
WriterCall(w) ==
    \E op \in WriterOps :
        /\ writers[w].pc = Idle
        /\ writers' = [writers EXCEPT ![w].pc = "called", ![w].op = op]
        /\ UNCHANGED <<safetyVars, ledgerVars, runVars, execVars>>

\* memory = self.read()
WriterRead(w) ==
    /\ writers[w].pc = "called"
    /\ writers' = [writers EXCEPT ![w].pc = "read", ![w].memory = file]
    /\ UNCHANGED <<safetyVars, ledgerVars, runVars, execVars>>

\* the change of the document and self._write(memory)
WriterWrite(w) ==
    LET own == writers[w]
    IN  /\ own.pc = "read"
        /\ file' = Mutation(w, own.op, WrittenDocument(own.memory, file), clock)
        /\ last' = [op |-> own.op, wrote |-> TRUE, writer |-> w]
        /\ prev' = file
        /\ writes' = writes + 1
        /\ clock' = clock + 1
        /\ logged' = IF own.op = "log_failure"
                     THEN Append(logged, FailureRecord(WriterSkill(w), "e1", "c1", clock))
                     ELSE logged
        /\ issued' = IF own.op = "add_directive"
                     THEN issued \cup {[index |-> Len(own.memory.directives),
                                        goal |-> WriterGoal(w)]}
                     ELSE issued
        /\ writers' = [writers EXCEPT ![w].pc = "done"]
        /\ UNCHANGED <<safetyVars, runVars, execVars>>

NextWriters == \E w \in Writers : WriterCall(w) \/ WriterRead(w) \/ WriterWrite(w)

SpecWriters == InitWriters /\ [][NextWriters]_vars

\* ------------------------------------------------------------------------
\* One process whose ledger write can be cut short: _write opens memory.json
\* with mode 'w', which truncates it, json.dump writes the document through
\* the file's buffer, and leaving the with block flushes the rest.  The
\* process can stop between any two of these steps and is then started again.
\* ------------------------------------------------------------------------

MaxCrashWrites == 2     \* mutations one behaviour starts
MaxChunks == 2          \* flushes of the buffer before the last one

\* memory.json while a write is under way: the first chunks of the new text
Torn(chunks) == [exists |-> TRUE, torn |-> TRUE, chunks |-> chunks]

IsTorn(content) == "torn" \in DOMAIN content

\* json.load on the content of the file
JsonLoadRaises(content) == IsTorn(content)

InitCrash == IdleSafety /\ InitAgentLedger /\ IdleRun /\ IdleExec /\ IdleWriters

\* the process calls log_failure, add_skill or add_directive
CrashCall ==
    \E op \in WriterOps :
        /\ writers[1].pc = Idle
        /\ clock < 2 + MaxCrashWrites
        /\ writers' = [writers EXCEPT ![1].pc = "called", ![1].op = op]
        /\ UNCHANGED <<safetyVars, ledgerVars, runVars, execVars>>

\* memory = self.read(), then the change of the document and the first two
\* lines of _write
CrashRead ==
    /\ writers[1].pc = "called"
    /\ writers' = [writers EXCEPT ![1].pc = "read",
                                  ![1].memory = Mutation(1, writers[1].op, file, clock)]
    /\ clock' = clock + 1
    /\ UNCHANGED <<file, last, prev, writes, issued, logged, safetyVars, runVars, execVars>>

\* open(self.memory_path, 'w')
OpenForWrite ==
    /\ writers[1].pc = "read"
    /\ file' = Torn(0)
    /\ prev' = file
    /\ writers' = [writers EXCEPT ![1].pc = "opened"]
    /\ UNCHANGED <<clock, last, writes, issued, logged, safetyVars, runVars, execVars>>

\* json.dump: the buffer fills and is flushed
DumpChunk ==
    /\ writers[1].pc = "opened"
    /\ file.chunks < MaxChunks
    /\ file' = Torn(file.chunks + 1)
    /\ UNCHANGED <<clock, last, prev, writes, issued, logged, safetyVars, runVars, execVars,
                   writerVars>>

\* the end of the with block: the rest is flushed and the file closed
CloseFile ==
    /\ writers[1].pc = "opened"
    /\ file' = writers[1].memory
    /\ writes' = writes + 1
    /\ last' = [op |-> writers[1].op, wrote |-> TRUE, writer |-> 1]
    /\ writers' = [writers EXCEPT ![1].pc = Idle]
    /\ UNCHANGED <<clock, prev, issued, logged, safetyVars, runVars, execVars>>

\* the process stops
ProcessStops ==
    /\ writers[1].pc \in {Idle, "called", "read", "opened"}
    /\ writers' = [writers EXCEPT ![1].pc = "stopped"]
    /\ UNCHANGED <<safetyVars, ledgerVars, runVars, execVars>>

\* the process is started again: PersistentMemory(MEMORY_FILE), which finds
\* the file and writes nothing, then read()
Restart ==
    /\ writers[1].pc = "stopped"
    /\ last' = IF JsonLoadRaises(file)
               THEN [op |-> "restart", raised |-> TRUE]
               ELSE [op |-> "restart", raised |-> FALSE, value |-> file]
    /\ writers' = [writers EXCEPT ![1].pc = IF JsonLoadRaises(file) THEN "failed" ELSE Idle,
                                  ![1].op = "none"]
    /\ UNCHANGED <<file, clock, prev, writes, issued, logged, safetyVars, runVars, execVars>>

NextCrash ==
    \/ CrashCall
    \/ CrashRead
    \/ OpenForWrite
    \/ DumpChunk
    \/ CloseFile
    \/ ProcessStops
    \/ Restart

SpecCrash == InitCrash /\ [][NextCrash]_vars

\* the stored failure records of one skill
StoredFailuresOf(doc, skill) == SelectSeq(doc.failures, LAMBDA f : f.skill = skill)

Min2(a, b) == IF a < b THEN a ELSE b

\* ------------------------------------------------------------------------
\* Properties of the agent's runs
\* ------------------------------------------------------------------------

\* C1: in both modes, every piece of code handed to the executor during a
\* run has passed check_code_safety earlier in that run, and no child
\* process is spawned for code that matches a denylisted pattern.
C1_ExecutedCodeWasChecked ==
    \A e \in executed :
        /\ e.code \in checked
        /\ e.spawned => check_code_safety(e.code)[1]

\* C2: in both modes, every file the write step has written lies inside the
\* skills directory, whichever name reached the step, and no write happens
\* under a name whose skill file is_path_safe rejects.
C2_WritesStayInSkillsDir ==
    \A f \in disk :
        /\ InsideTree(SKILLS_DIR, f.target)
        /\ is_path_safe(WORKSPACE_ROOT, [abs |-> TRUE, segs |-> SkillFile(f.name)])[1]

\* what the ledger says about the run's skill ("none": no entry)
LedgerStatus ==
    LET i == FindSkill(file.skills, skill_name, 1)
    IN  IF i = 0 THEN "none" ELSE file.skills[i].status

AllRounds(k) == [plan |-> k, write |-> k, test |-> k, analyze |-> k]

\* C16: in graph mode, when the verdict of iteration k is the first
\* SUCCESS, the status is success, each of the four handlers has run
\* exactly k times, no handler runs again, the ledger holds the skill as
\* working, and run returns success.
C16_FirstSuccessEndsRun ==
    (mode = "graph" /\ verdicts # <<>> /\ verdicts[Len(verdicts)]) =>
        LET k == Len(verdicts)
        IN  /\ k \in 1..MAX_ITERATIONS
            /\ \A j \in 1..(k - 1) : ~verdicts[j]
            /\ status = "success"
            /\ rounds = AllRounds(k)
            /\ LedgerStatus = "working"
            /\ pc \in {"end", "done"}
            /\ pc = "done" => outcome = "True"

C16_Witness ==
    /\ mode = "graph"
    /\ verdicts = <<FALSE, TRUE>>
    /\ rounds = AllRounds(2)
    /\ LedgerStatus = "working"
    /\ pc = "done"
    /\ outcome = "True"

AllFailure(vs) == \A j \in 1..Len(vs) : ~vs[j]

\* C17: in graph mode, when all MAX_ITERATIONS verdicts are FAILURE, the
\* status is failed, each handler has run exactly MAX_ITERATIONS times, no
\* handler runs again, the ledger holds the skill as failed, and run
\* returns failure.
C17_AllFailureEndsFailed ==
    (mode = "graph" /\ Len(verdicts) = MAX_ITERATIONS /\ AllFailure(verdicts)) =>
        /\ status = "failed"
        /\ rounds = AllRounds(MAX_ITERATIONS)
        /\ LedgerStatus = "failed"
        /\ pc \in {"end", "done"}
        /\ pc = "done" => outcome = "False"

\* the failure records logged for the run's skill
LoggedForSkill == SelectSeq(logged, LAMBDA f : f.skill = skill_name)

FailureVerdicts == Cardinality({j \in 1..Len(verdicts) : ~verdicts[j]})

\* C18: in graph mode, the ledger has received at least one failure record
\* for the skill per iteration whose verdict was FAILURE (the 50-record cap
\* apart), whatever the exit code of that iteration's execution.
C18_FailureVerdictLogsFailure ==
    mode = "graph" =>
        /\ Len(LoggedForSkill) >= FailureVerdicts
        /\ Len(StoredFailuresOf(file, skill_name)) >= Min2(FailureVerdicts, FAILURE_LIMIT)

\* the run of run_llm_central has returned
LlmReturned == mode = "llm-central" /\ pc = "done" /\ outcome \in {"True", "False"}

\* the last ledger call was the upsert of the run's skill with this status
UpsertedAs(skill_status) ==
    /\ LedgerStatus = skill_status
    /\ last.op = "add_skill"
    /\ last.name = skill_name
    /\ last.status = skill_status
    /\ Len(file.skills) =
            Len(prev.skills) + (IF FindSkill(prev.skills, skill_name, 1) = 0 THEN 1 ELSE 0)

\* C19: in llm-central mode, when run has returned after a COMPLETE
\* decision the skill has been upserted as working and the result is true;
\* after a FAILED decision, or after MAX_ITERATIONS decisions none of which
\* ended the run, the skill has been upserted as failed and the result is
\* false.
C19_TerminalDecisionsUpsert ==
    LlmReturned =>
        /\ (iteration <= MAX_ITERATIONS /\ decision.action = "COMPLETE") =>
                outcome = "True" /\ UpsertedAs("working")
        /\ (iteration <= MAX_ITERATIONS /\ decision.action = "FAILED") =>
                outcome = "False" /\ UpsertedAs("failed")
        /\ iteration > MAX_ITERATIONS =>
                outcome = "False" /\ UpsertedAs("failed")

C19_Witness ==
    /\ LlmReturned
    /\ decision.action = "COMPLETE"
    /\ FindSkill(decision.ledger.skills, skill_name, 1) # 0
    /\ decision.ledger.skills[1].status = "untested"
    /\ UpsertedAs("working")
    /\ outcome = "True"

\* C20: in llm-central mode, after a DIRECT_ANSWER decision run has returned
\* true at once: the history, the iteration counter and the whole ledger
\* are what they were when the decision was asked for.
C20_DirectAnswerTouchesNothing ==
    (mode = "llm-central" /\ decision.action = "DIRECT_ANSWER") =>
        /\ pc = "done"
        /\ outcome = "True"
        /\ history = decision.history
        /\ iteration = decision.iteration
        /\ file.skills = decision.ledger.skills
        /\ file = decision.ledger

C20_Witness ==
    /\ mode = "llm-central"
    /\ decision.action = "DIRECT_ANSWER"
    /\ pc = "done"
    /\ Len(file.skills) = 1
    /\ file.skills[1].status = "untested"
    /\ Len(history) = 1

\* C21: in llm-central mode, a tool invocation, failed or raising ones
\* included, is appended to the history and the loop goes on with the next
\* iteration; run ends only on COMPLETE, FAILED, DIRECT_ANSWER or once
\* MAX_ITERATIONS iterations are used up, a fault of the collaborator while
\* deciding included.
C21_OnlyTerminalDecisionsEndRun ==
    mode = "llm-central" =>
        /\ decision.action \in ToolNames =>
            /\ Len(history) = Len(decision.history) + 1
            /\ SubSeq(history, 1, Len(decision.history)) = decision.history
            /\ history[Len(history)].action = decision.action
            /\ iteration = decision.iteration + 1
            /\ pc = "decide" \/ iteration > MAX_ITERATIONS
        /\ pc = "done" =>
            /\ outcome \in {"True", "False"}
            /\ decision.action \in TerminalDecisions \/ iteration > MAX_ITERATIONS

\* a label that the response does not hold
Missing(response, kw) == ~\E i \in 1..Len(response) : KeywordAt(response, kw, i)

\* the text after the first PARAMS: label is one JSON object
ParamsIsJson(response) ==
    LET i == Least({k \in 1..Len(response) : KeywordAt(response, "PARAMS", k)})
        text == Strip(SubSeq(response, i + 2, Len(response)))
    IN  /\ Len(text) >= 2
        /\ text[1] = "{"
        /\ text[Len(text)] = "}"
        /\ ValidJsonBody(SubSeq(text, 2, Len(text) - 1))

\* the response cannot be parsed into rationale, action and parameters
Unparsable(response) ==
    \/ Missing(response, "DECISION")
    \/ Missing(response, "ACTION")
    \/ Missing(response, "PARAMS")
    \/ ~ParamsIsJson(response)

\* C22: for every response that cannot be parsed (DECISION, ACTION or PARAMS
\* missing, or PARAMS not valid JSON) decide_next_action has logged exactly
\* one failure record under "llm_controller" and has returned plan_skill
\* with the run's goal, skill name and iteration.
C22_UnparsableFallsBackToPlan ==
    (pc = "decided" /\ Unparsable(decision.response)) =>
        /\ decision.action = "plan_skill"
        /\ decision.params =
                [goal |-> goal, skill_name |-> skill_name, iteration |-> iteration]
        /\ Len(logged) = 1
        /\ logged[1].skill = ControllerName
        /\ file.failures = Append(decision.ledger.failures, logged[1])

\* graph mode: plan_skill has ended the run on a safety violation (the only
\* way to status failed with more plan steps than write steps)
GraphSafetyViolation ==
    mode = "graph" /\ status = "failed" /\ rounds.plan = rounds.write + 1

\* llm-central mode: the history entries of plan_skill calls whose code
\* failed check_code_safety
LlmSafetyViolations ==
    {k \in 1..Len(history) :
        history[k].action = "plan_skill" /\ history[k].error = SafetyCheckFailed}

\* C23: in both modes, once generated code has failed check_code_safety no
\* further plan, write or test step is performed in that run, and the run
\* returns with the skill recorded as failed in the ledger.
C23_SafetyViolationIsTerminal ==
    /\ GraphSafetyViolation =>
        /\ pc \in {"end", "done"}
        /\ pc = "done" /\ outcome \in {"True", "False"} => LedgerStatus = "failed"
    /\ mode = "llm-central" =>
        \A k \in LlmSafetyViolations :
            /\ \A j \in (k + 1)..Len(history) :
                    history[j].action \notin {"plan_skill", "write_skill", "test_skill"}
            /\ LlmReturned => LedgerStatus = "failed"

\* run has ended, and not with success
EndedWithoutSuccess ==
    /\ pc = "done"
    /\ IF mode = "graph" THEN status # "success" ELSE outcome # "True"

\* C24: every run that has ended without success (safety violation, write
\* error, exception in the graph or in a collaborator call, FAILED decision,
\* budget exhaustion) has left the skill in the ledger with status failed.
C24_FailedRunsAreRecorded == EndedWithoutSuccess => LedgerStatus = "failed"

\* the budget of either mode: the analyze steps of the graph, the iteration
\* at which a decision was asked for (the k-th decision is asked at
\* iteration k)
WithinBudget ==
    /\ iteration <= MAX_ITERATIONS + 1
    /\ mode = "graph" => rounds.analyze <= MAX_ITERATIONS
    /\ (mode = "llm-central" /\ decision # NoDecision) =>
            decision.iteration \in 1..MAX_ITERATIONS

\* how the run has ended: the graph with status success or failed (or run
\* reporting failure), the decision loop with true (success, direct answer)
\* or false (failed)
FinalStatus ==
    IF mode = "graph"
    THEN status \in {"success", "failed"} \/ outcome = "False"
    ELSE \/ outcome = "True" /\ decision.action \in {"COMPLETE", "DIRECT_ANSWER"}
         \/ outcome = "False"

\* C25: when every collaborator call and every execution returns, every run
\* terminates, in graph mode after at most MAX_ITERATIONS analyze steps, in
\* llm-central mode after at most MAX_ITERATIONS decisions, and it ends as
\* success, failed or direct answer.
C25_RunsTerminate ==
    /\ <>(pc = "done")
    /\ [](WithinBudget /\ (pc = "done" => FinalStatus))

C25_Witness ==
    /\ pc = "done"
    /\ iteration = MAX_ITERATIONS + 1
    /\ mode = "llm-central"
    /\ outcome = "False"
    /\ decision.iteration = MAX_ITERATIONS

GraphStatuses == {"planning", "coding", "testing", "analyzing", "success", "failed"}

\* the handler of each status that is not terminal
HandlerOf ==
    [planning |-> "plan", coding |-> "write", testing |-> "test", analyzing |-> "analyze"]

\* the status changes of the pipeline
StatusChanges ==
    { <<"planning", "coding">>, <<"coding", "testing">>, <<"testing", "analyzing">>,
      <<"analyzing", "success">>, <<"analyzing", "planning">>, <<"analyzing", "failed">>,
      <<"planning", "failed">>, <<"coding", "failed">> }

\* the handlers that run in a step
Ran == {h \in DOMAIN rounds : rounds'[h] # rounds[h]}

\* C26: in graph mode the status is always one of planning, coding, testing,
\* analyzing, success, failed; a handler runs only in the status it handles
\* (plan in planning, write in coding, test in testing, analyze in
\* analyzing); the status changes only along the pipeline's edges, plus
\* planning -> failed and coding -> failed; no handler runs once the status
\* is success or failed.
C26_StatusMachine ==
    [][mode = "graph" =>
        /\ status' \in GraphStatuses
        /\ status \in GraphStatuses =>
            /\ status' # status => <<status, status'>> \in StatusChanges
            /\ \A h \in Ran : status \in DOMAIN HandlerOf /\ HandlerOf[status] = h
            /\ status \in {"success", "failed"} => Ran = {}]_vars

C26_Witness ==
    /\ mode = "graph"
    /\ pc = "done"
    /\ status = "failed"
    /\ rounds = [plan |-> 2, write |-> 1, test |-> 1, analyze |-> 1]

\* the mutation of process w is in the document
HasEffect(doc, w) ==
    CASE writers[w].op = "log_failure" ->
            \E i \in 1..Len(doc.failures) : doc.failures[i].skill = WriterSkill(w)
      [] writers[w].op = "add_skill" -> FindSkill(doc.skills, WriterSkill(w), 1) # 0
      [] writers[w].op = "add_directive" ->
            \E i \in 1..Len(doc.directives) : doc.directives[i].goal = WriterGoal(w)
      [] OTHER -> FALSE

BothDone == \A w \in Writers : writers[w].pc = "done"

\* both processes read before either wrote: they read the same document
Interleaved == writers[1].memory = writers[2].memory

\* C27: two processes share the ledger file.  When their reads and writes
\* interleave, both mutations complete but the file holds the effect of the
\* last to write only and the version has grown by 1 for 2 writes; when one
\* process finishes before the other reads, both effects are stored and the
\* version has grown by 2.
C27_InterleavedWritersLoseUpdate ==
    BothDone =>
        IF Interleaved
        THEN /\ HasEffect(file, last.writer)
             /\ \A w \in Writers \ {last.writer} : ~HasEffect(file, w)
             /\ file.version = writers[1].memory.version + 1
             /\ writes = writers[1].memory.version + 2
        ELSE /\ \A w \in Writers : HasEffect(file, w)
             /\ file.version = writes
             /\ \E w \in Writers : file.version = writers[w].memory.version + 2

C27_Witness ==
    /\ BothDone
    /\ Interleaved
    /\ writers[1].op = "log_failure"
    /\ writers[2].op = "log_failure"
    /\ Len(logged) = 2
    /\ Len(file.failures) = 1
    /\ file.version = prev.version

\* what the executor returned, by the kind the graph keeps in test_result
OutcomeOf(kind) == CHOOSE r \in ExecOutcomes : r.kind = kind

Elements(seq) == {seq[i] : i \in 1..Len(seq)}

\* a test step of the skill `name` on `code`, whose execution gave `result`
TestStepLogs(name, code, result) ==
    LET record == FailureRecord(name, result.stderr, Prefix(code, SNIPPET_LIMIT), clock)
    IN  IF result.success
        THEN file'.failures = file.failures /\ logged' = logged
        ELSE /\ file'.failures = LastSlice(Append(file.failures, record), FAILURE_LIMIT)
             /\ logged' = Append(logged, record)
             /\ record \in Elements(get_relevant_failures(file', name, DEFAULT_LIMIT))

\* a planning step of the skill `name` finds the records `since` in what
\* get_relevant_failures returns for that skill
PlanStepFinds(name, since) ==
    \A record \in since :
        record.skill = name =>
            record \in Elements(get_relevant_failures(file, name, DEFAULT_LIMIT))

LlmToolStep(action) ==
    /\ mode = "llm-central"
    /\ Len(history') = Len(history) + 1
    /\ history'[Len(history')].action = action
    /\ decision'.action = action
    /\ "met" \in DOMAIN decision'

\* C33: in both modes, a test step whose execution fails appends exactly one
\* failure record for the skill under test, with the execution's stderr and
\* the first 500 characters of the executed code, and a test step whose
\* execution succeeds appends none; the record is visible to the next
\* planning step of that skill through get_relevant_failures (in graph mode
\* the plan of the next iteration; in llm-central mode the first plan_skill
\* for that skill that follows the test steps).
C33_FailedTestsFeedPlanning ==
    [][/\ (mode = "graph" /\ rounds'.test = rounds.test + 1) =>
            TestStepLogs(skill_name, skill_code, OutcomeOf(test_result'))
       /\ LlmToolStep("test_skill") =>
            TestStepLogs(decision'.params.skill_name, decision'.params.code, decision'.met)
       /\ (mode = "graph" /\ rounds'.plan = rounds.plan + 1 /\ logged # <<>>) =>
            PlanStepFinds(skill_name, {logged[Len(logged)]})
       /\ (/\ LlmToolStep("plan_skill")
           /\ \A i \in 1..Len(history) : history[i].action # "plan_skill") =>
            PlanStepFinds(decision'.params.skill_name, Elements(logged))
      ]_vars

\* C34: in llm-central mode, an analyze_results invocation whose verdict
\* begins with SUCCESS upserts the skill as working and makes run return
\* success, as a COMPLETE decision does.
C34_SuccessVerdictCompletesRun ==
    [][(/\ mode = "llm-central"
        /\ Len(history') = Len(history) + 1
        /\ history'[Len(history')].action = "analyze_results"
        /\ history'[Len(history')].success) =>
            /\ outcome' = "True"
            /\ pc' = "done"
            /\ FindSkill(file'.skills, skill_name, 1) # 0
            /\ file'.skills[FindSkill(file'.skills, skill_name, 1)].status = "working"
      ]_vars

\* a handler of the graph runs, or a decision is asked of the collaborator
\* and answered
HandlerOrDecisionStarts ==
    \/ mode = "graph" /\ rounds' # rounds
    \/ mode = "llm-central" /\ pc = "decide" /\ decision' # decision

\* C36: in both modes, no handler (plan, write, test, analyze) and no
\* decision request is started while the iteration counter is greater than
\* MAX_ITERATIONS or less than 1; the counter is 1 at the first step and only
\* ever increases, by 1 at a time.
C36_IterationWithinBounds ==
    [][/\ HandlerOrDecisionStarts => iteration \in 1..MAX_ITERATIONS
       /\ pc = "ready" => iteration' = 1
       /\ pc # "ready" => iteration' \in {iteration, iteration + 1}
      ]_vars

C36_Witness ==
    /\ mode = "graph"
    /\ pc = "done"
    /\ rounds = [plan |-> MAX_ITERATIONS, write |-> MAX_ITERATIONS,
                 test |-> MAX_ITERATIONS, analyze |-> MAX_ITERATIONS]
    /\ iteration = MAX_ITERATIONS + 1

\* C37: in llm-central mode, a decision whose action is neither a registered
\* tool name nor DIRECT_ANSWER, COMPLETE or FAILED (RETRY_PLAN included)
\* invokes no tool, consumes exactly one iteration of the budget, and leaves
\* the action history and the ledger unchanged.
C37_UnknownActionOnlyCountsIteration ==
    [][(/\ mode = "llm-central"
        /\ pc = "decide"
        /\ decision' # decision
        /\ decision'.action \notin
              {"plan_skill", "write_skill", "test_skill", "analyze_results", "memory_ops",
               "langgraph_planner", "DIRECT_ANSWER", "COMPLETE", "FAILED", "raised"}) =>
            /\ iteration' = iteration + 1
            /\ pc' = "decide"
            /\ history' = history
            /\ file' = file /\ writes' = writes /\ logged' = logged
            /\ executed' = executed /\ disk' = disk /\ skill_code' = skill_code
      ]_vars

C37_Witness ==
    /\ mode = "llm-central"
    /\ pc = "decide"
    /\ decision.action = "RETRY_PLAN"
    /\ iteration = decision.iteration + 1
    /\ history # <<>>
    /\ history = decision.history
    /\ file = decision.ledger

\* C38: in every run, in either mode, a skill is upserted with status working
\* only after an execution of that skill's code has taken place earlier in
\* the run and has been judged (by the analysis step in graph mode, by a
\* test_skill invocation in llm-central mode); no run records working for a
\* skill whose code was never executed.
C38_WorkingOnlyAfterJudgedExecution ==
    \A i \in 1..Len(file.skills) :
        file.skills[i].status = "working" =>
            /\ executed # {}
            /\ IF mode = "graph"
               THEN rounds.test >= 1 /\ verdicts # <<>>
               ELSE \E j \in 1..Len(history) : history[j].action = "test_skill"

\* ------------------------------------------------------------------------
\* Properties of the executor
\* ------------------------------------------------------------------------

Returned(i) == inv[i].pc = "returned"

\* C11: when execute has returned, whichever way the attempt ended, the
\* exec directory holds no file under the invocation's name that carries
\* the code this invocation wrote.
C11_EphemeralFileRemoved ==
    \A i \in Invocations :
        Returned(i) =>
            ~\E f \in exec_dir : f.name = inv[i].exec_file /\ f.by = i

C11_Witness ==
    /\ \E i \in Invocations :
        Returned(i) /\ inv[i].event = "write_failed" /\ inv[i].created
    /\ \E i \in Invocations :
        Returned(i) /\ inv[i].event = "timeout" /\ inv[i].created
    /\ exec_dir = {}

\* C12: an invocation whose child did not end within the timeout returns
\* success = false, returncode = -1, an empty stdout and a stderr that
\* carries the timeout message, and its file is gone once it has returned.
C12_TimeoutResult ==
    \A i \in Invocations :
        inv[i].event = "timeout" =>
            /\ ~inv[i].exited
            /\ inv[i].result.success = FALSE
            /\ inv[i].result.returncode = -1
            /\ inv[i].result.stdout = ""
            /\ inv[i].result.stderr = <<"Execution timeout", EXECUTION_TIMEOUT>>
            /\ Returned(i) => ~exists({f \in exec_dir : f.by = i}, inv[i].exec_file)

C12_Witness ==
    \E i \in Invocations :
        /\ Returned(i)
        /\ inv[i].event = "timeout"
        /\ inv[i].created
        /\ inv[i].ran = i

\* C13: execute never raises; what it returns has the fields success,
\* stdout, stderr and returncode; success is true exactly when the child
\* ended within the timeout with exit code 0; and on a fault success is
\* false and stderr carries the fault's message.
C13_ResultContract ==
    \A i \in Invocations :
        /\ inv[i].pc # "raised"
        /\ inv[i].result # NoResult =>
            /\ DOMAIN inv[i].result = {"success", "stdout", "stderr", "returncode"}
            /\ inv[i].result.success <=> (inv[i].exited /\ inv[i].exit_code = 0)
            /\ inv[i].event \in {"write_failed", "no_interpreter"} =>
                    /\ ~inv[i].result.success
                    /\ inv[i].result.stderr \in {<<"OSError">>, <<"FileNotFoundError">>}

Active(i) == inv[i].pc \notin {"idle", "returned", "raised"}

\* C14: two invocations that are in progress at the same time never have
\* the same file name, and the child of each runs the code its own
\* invocation wrote.
C14_DistinctFileNames ==
    /\ \A i, j \in Invocations :
        (i # j /\ Active(i) /\ Active(j)) => inv[i].exec_file # inv[j].exec_file
    /\ \A i \in Invocations :
        inv[i].pc = "wait" => inv[i].ran = i

\* C15: once an invocation that timed out has returned, neither its child
\* nor any process the child started is still running.
C15_TimeoutKillsProcessTree ==
    \A i \in Invocations :
        (inv[i].event = "timeout" /\ Returned(i)) =>
            ~\E q \in procs : q.owner = i

\* ------------------------------------------------------------------------
\* Properties of the ledger
\* ------------------------------------------------------------------------

\* C5: with a single writer the stored version equals the number of writes
\* done on the file, the bootstrap write included: a fresh ledger has
\* version 1, every write adds exactly 1 to the version it read, and a call
\* that writes nothing leaves it alone.
C5_VersionCountsWrites ==
    /\ file # Absent => file.version = writes
    /\ (file # Absent /\ prev = Absent) => file.version = 1
    /\ (file # Absent /\ prev # Absent) =>
            file.version = prev.version + (IF last.wrote THEN 1 ELSE 0)

C5_Witness ==
    /\ file # Absent
    /\ file.version = 4
    /\ writes = 4
    /\ Len(file.skills) + Len(file.failures) = 1
    /\ last.op = "complete_directive"
    /\ last.wrote

C6_FailuresAreLastFifty ==
    file # Absent =>
        LET n == Len(logged)
        IN  /\ Len(file.failures) <= 50
            /\ file.failures = SubSeq(logged, IF n > 50 THEN n - 49 ELSE 1, n)

C6_Witness ==
    /\ file # Absent
    /\ Len(logged) > 50
    /\ Len(file.failures) = 50
    /\ file.failures[1] = logged[Len(logged) - 49]
    /\ \E i \in 1..50 : file.failures[i].skill = "beta"
    /\ logged[1] \notin {file.failures[i] : i \in 1..50}

\* C7: no two skills of the ledger share a name, and add_skill with a name
\* that is already there adds no entry and stores the call's description
\* and status in that entry.
C7_SkillUpsert ==
    file # Absent =>
        /\ \A i, j \in 1..Len(file.skills) :
                file.skills[i].name = file.skills[j].name => i = j
        /\ (last.op = "add_skill" /\ FindSkill(prev.skills, last.name, 1) # 0) =>
                LET i == FindSkill(prev.skills, last.name, 1)
                IN  /\ Len(file.skills) = Len(prev.skills)
                    /\ file.skills[i].name = last.name
                    /\ file.skills[i].description = last.description
                    /\ file.skills[i].status = last.status

C7_Witness ==
    /\ file # Absent
    /\ last.op = "add_skill"
    /\ Len(prev.skills) = 2
    /\ prev.skills[2].name = last.name
    /\ prev.skills[2].description # last.description
    /\ prev.skills[2].status # last.status

\* C8: complete_directive with an index below 0 or at or beyond the number
\* of directives writes nothing: the stored document, its version and
\* updated_at included, is what it was before the call.
C8_OutOfRangeIsNoOp ==
    (last.op = "complete_directive"
        /\ (last.index < 0 \/ last.index >= Len(prev.directives))) =>
            /\ file = prev
            /\ ~last.wrote

C8_Witness ==
    /\ last.op = "complete_directive"
    /\ last.index < 0
    /\ Len(prev.directives) = 2
    /\ prev.directives[2].status = "pending"

\* C9: add_directive returns the position of the pending directive it
\* appended; every index it ever returned still refers to a directive with
\* that goal; complete_directive(index) marks that directive completed and
\* leaves every other directive as it was.
C9_DirectiveIndexStable ==
    file # Absent =>
        /\ \A d \in issued :
                /\ d.index + 1 \in 1..Len(file.directives)
                /\ file.directives[d.index + 1].goal = d.goal
        /\ last.op = "add_directive" =>
                /\ last.ret = Len(prev.directives)
                /\ file.directives[last.ret + 1].goal = last.goal
                /\ file.directives[last.ret + 1].status = "pending"
                /\ SubSeq(file.directives, 1, Len(prev.directives)) = prev.directives
        /\ (last.op = "complete_directive" /\ last.wrote) =>
                /\ Len(file.directives) = Len(prev.directives)
                /\ file.directives[last.index + 1].status = "completed"
                /\ \A i \in 1..Len(file.directives) :
                        i # last.index + 1 => file.directives[i] = prev.directives[i]

C9_Witness ==
    /\ file # Absent
    /\ Cardinality(issued) = 2
    /\ last.op = "complete_directive"
    /\ last.index = 0
    /\ file.directives[1].status = "completed"
    /\ file.directives[2].status = "pending"
    /\ file.directives[1].goal # file.directives[2].goal

\* C10: get_relevant_failures(skill, limit), limit >= 0, returns the last
\* min(limit, n) stored records of that skill in stored order, n being the
\* number of stored records of that skill: no record of another skill and
\* never more than limit records.
C10_RelevantFailuresLastLimit ==
    last.op = "get_relevant_failures" =>
        LET mine == StoredFailuresOf(file, last.skill)
            n == Len(mine)
            m == Min2(last.limit, n)
        IN  /\ last.ret = SubSeq(mine, n - m + 1, n)
            /\ Len(last.ret) <= last.limit
            /\ \A i \in 1..Len(last.ret) : last.ret[i].skill = last.skill

\* ------------------------------------------------------------------------
\* Properties of the safety enforcer
\* ------------------------------------------------------------------------

\* C29: requires_approval returns false exactly when the action is one of
\* write_skill, execute_python, read_workspace and no path is given or the
\* path given passes is_path_safe; it returns true for an auto-approved
\* action with an unsafe path and for every other action, with or without a
\* path.
C29_ApprovalIffNotAutoApprovedOrUnsafe ==
    (sfIn.kind = "approval" /\ sfOut # Pending) =>
        LET auto == sfIn.action \in {"write_skill", "execute_python", "read_workspace"}
            safe == is_path_safe(WORKSPACE_ROOT, PathOf(sfIn))[1]
        IN  /\ sfOut[1] \in BOOLEAN
            /\ sfOut[1] = FALSE <=> (auto /\ (~sfIn.has_path \/ safe))
            /\ (auto /\ sfIn.has_path /\ ~safe) => sfOut[1] = TRUE
            /\ ~auto => sfOut[1] = TRUE

C29_Witness ==
    /\ sfIn.kind = "approval"
    /\ sfIn.action = "write_skill"
    /\ sfIn.has_path
    /\ sfIn.segs = <<DotDot, CwdName>>
    /\ ~sfIn.abs
    /\ sfOut # Pending
    /\ sfOut[1] = TRUE

\* C30: ToolAssembler.assemble never returns success = true together with
\* code that fails check_code_safety, for every list of registered framework
\* names and every parameter map, parameter values that hold denylisted text
\* included.
Assembled == sfIn.kind = "assemble" /\ sfOut # Pending /\ sfOut[2] = "assemble"

C30_AssembledCodeIsChecked ==
    (Assembled /\ sfOut[1].success) => check_code_safety(sfOut[1].code)[1]

\* C31: ToolAssembler.assemble returns success = false with empty code and a
\* descriptive error when the name list is empty or when some name is not
\* registered; it stops at the first unknown name in request order, names it
\* in the error, and neither renders later names nor runs the safety check.
UnknownAt(i) ==
    /\ i \in 1..Len(sfIn.framework_names)
    /\ sfIn.framework_names[i] \notin {"python_generator", "analysis_prompt", "test_harness"}
    /\ \A j \in 1..(i - 1) :
        sfIn.framework_names[j] \in {"python_generator", "analysis_prompt", "test_harness"}

C31_AssembleFailsFast ==
    Assembled =>
        /\ sfIn.framework_names = <<>> =>
            /\ sfOut[1] = [success |-> FALSE, error |-> <<"No frameworks specified">>,
                           code |-> <<>>]
            /\ sfOut[3] = [rendered |-> <<>>, checked |-> FALSE]
        /\ \A i \in 1..Len(sfIn.framework_names) : UnknownAt(i) =>
            /\ sfOut[1] = [success |-> FALSE,
                           error |-> <<"Framework not found", sfIn.framework_names[i]>>,
                           code |-> <<>>]
            /\ sfOut[3].rendered = SubSeq(sfIn.framework_names, 1, i - 1)
            /\ ~sfOut[3].checked

C31_Witness ==
    /\ Assembled
    /\ sfIn.framework_names = <<"missing", "python_generator">>
    /\ sfIn.safety_enforcer # None
    /\ ~sfOut[1].success

\* C32: if the process stops at any point during a ledger write, a read of
\* the ledger file after restart returns the complete ledger as it was
\* before that write or as it is after it, never an empty, truncated or
\* unparseable document, and PersistentMemory can be constructed and read
\* again.
C32_StoppedWriteLeavesWholeLedger ==
    /\ writers[1].pc = "stopped" =>
        /\ ~IsTorn(file)
        /\ file.version \in {writes, writes + 1}
    /\ last.op = "restart" => ~last.raised

\* the value params gives the key of a placeholder, or the placeholder itself
ValueOrVerbatim(token, params) ==
    IF \E i \in 1..Len(params) : Placeholder(params[i][1]) = token
    THEN params[CHOOSE i \in 1..Len(params) : Placeholder(params[i][1]) = token][2]
    ELSE <<token>>

RECURSIVE EachReplaced(_, _)
EachReplaced(template, params) ==
    IF template = <<>> THEN <<>>
    ELSE ValueOrVerbatim(Head(template), params) \o EachReplaced(Tail(template), params)

RECURSIVE LabelledInOrder(_, _)
LabelledInOrder(components, params) ==
    IF components = <<>> THEN <<>>
    ELSE <<".", "sp", "x", ".", "sp", "x", "nl">> \o EachReplaced(components[1][2], params)
            \o <<"nl">> \o (IF Len(components) = 1 THEN <<>> ELSE <<"nl">>)
            \o LabelledInOrder(Tail(components), params)

Rendered == sfIn.kind = "render" /\ sfOut # Pending

\* C35: Framework.render(params) never raises; in every fragment it replaces
\* each occurrence of a placeholder whose key is in params by that key's
\* value and leaves every other placeholder verbatim; the output lists the
\* fragments in their declared order, each preceded by its component label.
C35_RenderSubstitutesEachPlaceholder ==
    Rendered =>
        sfOut[1] = LabelledInOrder(Registry[sfIn.framework].components, sfIn.params)

\* the PersistentMemory calls that store the document
Mutations == {"add_skill", "log_failure", "add_directive", "complete_directive"}

\* C39: each ledger mutation changes only its own collection: add_skill leaves
\* failures and directives unchanged, log_failure leaves skills and directives
\* unchanged, add_directive and complete_directive leave skills and failures
\* unchanged, every mutation leaves created_at of the ledger unchanged, and
\* read and get_relevant_failures change nothing (no write, version unchanged).
C39_MutationTouchesOwnCollection ==
    [][file # Absent =>
        /\ last'.op = "add_skill" =>
              file'.failures = file.failures /\ file'.directives = file.directives
        /\ last'.op = "log_failure" =>
              file'.skills = file.skills /\ file'.directives = file.directives
        /\ last'.op \in {"add_directive", "complete_directive"} =>
              file'.skills = file.skills /\ file'.failures = file.failures
        /\ last'.op \in Mutations => file'.created_at = file.created_at
        /\ last'.op \in {"read", "get_relevant_failures"} =>
              /\ file' = file
              /\ writes' = writes
              /\ file'.version = file.version]_vars

\* a log_failure on a ledger that holds a skill and a directive
C39_Witness ==
    /\ file # Absent
    /\ last.op = "log_failure"
    /\ prev.skills # <<>>
    /\ prev.directives # <<>>
    /\ file.skills = prev.skills
    /\ file.directives = prev.directives
    /\ file.created_at = prev.created_at

\* C40: under a single writer, after any sequence of ledger operations, no
\* skill and no directive is removed or moved to a different position, a
\* skill's name and created_at never change after its creation, and a
\* directive whose status is completed never returns to pending: a repeated
\* complete_directive on it keeps it completed and still counts as a write
\* that raises version by 1.
C40_EntriesStayInPlace ==
    [][file # Absent =>
        /\ Len(file'.skills) >= Len(file.skills)
        /\ \A i \in 1..Len(file.skills) :
              /\ file'.skills[i].name = file.skills[i].name
              /\ file'.skills[i].created_at = file.skills[i].created_at
        /\ Len(file'.directives) >= Len(file.directives)
        /\ \A i \in 1..Len(file.directives) :
              /\ file'.directives[i].goal = file.directives[i].goal
              /\ file'.directives[i].created_at = file.directives[i].created_at
              /\ file.directives[i].status = "completed" =>
                    file'.directives[i].status = "completed"
        /\ (/\ last'.op = "complete_directive"
            /\ last'.wrote
            /\ file.directives[last'.index + 1].status = "completed") =>
              /\ file'.directives[last'.index + 1].status = "completed"
              /\ file'.version = file.version + 1
              /\ writes' = writes + 1]_vars

\* complete_directive has been repeated on a directive already completed
C40_Witness ==
    /\ file # Absent
    /\ last.op = "complete_directive"
    /\ last.wrote
    /\ prev.directives[last.index + 1].status = "completed"
    /\ file.directives[last.index + 1].status = "completed"
    /\ file.version = prev.version + 1

\* C3: is_path_safe answers (TRUE, "") for a path that resolves to the
\* workspace root or into its directory tree, and (FALSE, reason) for every
\* path that resolves elsewhere: through "..", as an absolute path, or into
\* a sibling directory whose name begins with the workspace's name.
C3_PathSafeIffInsideTree ==
    (sfIn.kind = "path" /\ sfOut # Pending) =>
        LET joined == PathJoin(WORKSPACE_ROOT, PathOf(sfIn))
        IN  IF ResolveRaises(joined) THEN sfOut[1] = FALSE
            ELSE IF InsideTree(WORKSPACE_ROOT, Resolve(joined))
                 THEN sfOut = <<TRUE, "">>
                 ELSE sfOut[1] = FALSE /\ sfOut[2] # ""

\* The denylist read as a list of constructs: keyword, blanks, "(" with the
\* keyword not glued to a word character before it ...
HasCall(code, kw) ==
    \E i \in 1..Len(code) :
        /\ Lower(code[i]) = kw
        /\ i = 1 \/ ~IsWord(code[i - 1])
        /\ \E j \in (i + 1)..Len(code) :
                /\ code[j] = "("
                /\ \A m \in (i + 1)..(j - 1) : code[m] \in Whitespace

\* ... and open( followed on the same line by a quote and w or a
HasOpenForWrite(code) ==
    \E i \in 1..Len(code) :
        /\ Lower(code[i]) = "open"
        /\ i = 1 \/ ~IsWord(code[i - 1])
        /\ \E j \in (i + 1)..Len(code) :
                /\ code[j] = "("
                /\ \A m \in (i + 1)..(j - 1) : code[m] \in Whitespace
                /\ \E q \in (j + 1)..(Len(code) - 1) :
                        /\ code[q] \in {"'", "\""}
                        /\ Lower(code[q + 1]) \in {"w", "a"}
                        /\ \A m \in (j + 1)..(q - 1) : code[m] # "nl"

DenylistOrder ==
    <<"eval", "exec", "os.system", "subprocess.Popen", "subprocess.call",
      "__import__", "compile", "open">>

HasConstruct(code, n) ==
    IF DenylistOrder[n] = "open" THEN HasOpenForWrite(code)
    ELSE HasCall(code, DenylistOrder[n])

\* C4: check_code_safety answers (FALSE, reason) for every sample that holds
\* a denylisted construct, the reason naming the first entry of the list, in
\* list order, whose construct the sample holds, and (TRUE, "") exactly when
\* it holds none.
C4_FirstDenylistEntryWins ==
    (sfIn.kind = "code" /\ sfOut # Pending) =>
        LET hits == {n \in 1..Len(DenylistOrder) : HasConstruct(sfIn.code, n)}
        IN  IF hits = {} THEN sfOut = <<TRUE, "">>
            ELSE /\ sfOut[1] = FALSE
                 /\ sfOut[2].pattern \in hits
                 /\ \A n \in hits : sfOut[2].pattern <= n

C4_Witness ==
    /\ sfIn.kind = "code"
    /\ sfOut = <<FALSE, [pattern |-> 1]>>
    /\ Len(sfIn.code) = 4
    /\ sfIn.code[1] = "exec"
    /\ sfIn.code[3] = "EVAL"
    /\ HasCall(sfIn.code, "exec")

====
